---- MODULE Spec2Model ----
(***************************************************************************)
(* State-machine model of the PirateSurf scene editors.                    *)
(*                                                                         *)
(* The repository holds two editors that never run in the same page:       *)
(*   - AssetLevelEditor (three.js), src/unnamed/part_000;                  *)
(*   - AssetBrowser + InputHandler (Babylon.js), src/assetBrowser.js and   *)
(*     src/inputHandler.js, wired together in src/unnamed/part_002.        *)
(* The variable page says which of the two the page runs; the other        *)
(* editor's variables stay at their initial value.                         *)
(*                                                                         *)
(* Spec is the interaction state machine of both editors.  SpecIO is the   *)
(* scene-document protocol of AssetLevelEditor (saveScene / loadScene, in  *)
(* both variants of the class the file holds), over the variable io.       *)
(* SpecCalc applies the placement arithmetic of AssetBrowser.placeObject   *)
(* to bounded inputs, over the variable calc.                              *)
(*                                                                         *)
(* Every handler is a pure operator from the object's state (a record      *)
(* whose fields carry the names of the JavaScript fields) to its state     *)
(* after the handler has run to completion; an action applies one handler  *)
(* to one input event.                                                     *)
(***************************************************************************)
EXTENDS Integers, Sequences, FiniteSets, TLC

VARIABLES page, editor, lastE, browser, input, lastB, io, calc

vars == <<page, editor, lastE, browser, input, lastB, io, calc>>

(* Bounds of the model *)

\* number of object identities the three.js scene may allocate
MaxObjects == 1
\* number of placeModel loads that may be in flight at once
MaxPending == 1
\* number of models the Babylon scene may hold, and of fallback boxes
MaxModels == 1
MaxFallbacks == 1
\* number of placeObject imports that may be in flight at once
MaxLoads == 1
\* largest yaw (hundredths of a radian) a model may be turned to
MaxYaw == 8

(* Program constants *)

\* InputHandler.CLICK_THRESHOLD (pixels)
CLICK_THRESHOLD == 5
\* AssetBrowser.rotationSpeed, in hundredths of a radian per pixel
RotationSpeed == 1
\* distance between the two pointer positions of the model (pixels); it is
\* beyond CLICK_THRESHOLD
DragDistance == 8

(* Shared vocabulary *)

\* null for a file path / an object reference
NoFile == "null"
None == -1

\* catalog files a user can arm (two entries of the static catalog)
Files == {"Assets/3D/Castle/door.glb", "Assets/3D/Pirate/barrel.glb"}

(***************************************************************************)
(*                    AssetLevelEditor  (three.js)                         *)
(***************************************************************************)

\* emissive colours: the material default 0x000000, some authored tint,
\* the selection highlight 0x444444; NoEmissive: a material type without
\* an emissive property (MeshBasicMaterial)
Black == "0x000000"
Tint == "0x102030"
Highlight == "0x444444"
NoEmissive == "undefined"
Unset == "unset"

\* the AxesHelper the constructor adds to the scene
AxesId == 0
ObjIds == 0..MaxObjects

\* Shapes a loaded glTF scene can have: meshes[i] is the index of the material
\* object mesh i refers to, emissive[m] the emissive colour of material m.
ModelShapes ==
    { [meshes |-> <<1, 1>>, emissive |-> <<Black>>],
      [meshes |-> <<1, 2>>, emissive |-> <<Black, Tint>>],
      [meshes |-> <<1>>,    emissive |-> <<NoEmissive>>] }

\* new THREE.Mesh(BoxGeometry, MeshStandardMaterial) of createDemoCubeAt
CubeShape == [meshes |-> <<1>>, emissive |-> <<Black>>]

FreeObject ==
    [ where            |-> "free",
      meshes           |-> <<>>,
      emissive         |-> <<>>,
      originalEmissive |-> <<>>,
      isHighlighted    |-> <<>>,
      isPlacedObject   |-> FALSE,
      originalFile     |-> NoFile ]

NewObject(shape, placed, file) ==
    [ where            |-> "scene",
      meshes           |-> shape.meshes,
      emissive         |-> shape.emissive,
      originalEmissive |-> [i \in 1..Len(shape.meshes) |-> Unset],
      isHighlighted    |-> [i \in 1..Len(shape.meshes) |-> FALSE],
      isPlacedObject   |-> placed,
      originalFile     |-> file ]

\* new THREE.AxesHelper(5): a LineSegments, no mesh, no userData
AxesHelper == NewObject([meshes |-> <<>>, emissive |-> <<>>], FALSE, NoFile)

\* History kept for the properties (no handler reads it): snapshot is the
\* material emissive list of the selected object as it was when selectObject
\* began its highlight pass; deselected / before name the object the last
\* handler ran deselectObject's restore pass on, and its snapshot; deleted is
\* the object the last handler ran deleteSelectedObject on, had its meshes
\* (each naming its material), disposed what the handler's traverse disposed.
NoDisposal == [geometries |-> {}, materials |-> {}]

NoHist ==
    [ snapshot |-> <<>>, deselected |-> None, before |-> <<>>,
      deleted |-> None, had |-> <<>>, disposed |-> NoDisposal ]

EditorInit ==
    [ selectedFile    |-> NoFile,
      selectedObject  |-> None,
      isRotating      |-> FALSE,
      dragging        |-> FALSE,
      controlsEnabled |-> TRUE,
      attached        |-> None,
      tcEnabled       |-> FALSE,
      objects         |-> [i \in ObjIds |-> IF i = AxesId THEN AxesHelper ELSE FreeObject],
      pending         |-> <<>>,
      hist            |-> NoHist ]

\* object.traverse of selectObject: the highlight pass over the meshes
RECURSIVE HighlightFrom(_, _)
HighlightFrom(o, i) ==
    IF i > Len(o.meshes) THEN o
    ELSE IF o.isHighlighted[i] THEN HighlightFrom(o, i + 1)
    ELSE LET m == o.meshes[i]
             has == o.emissive[m] # NoEmissive
             stored == IF o.originalEmissive[i] = Unset
                       THEN (IF has THEN o.emissive[m] ELSE Black)
                       ELSE o.originalEmissive[i]
             lit == IF has THEN [o.emissive EXCEPT ![m] = Highlight] ELSE o.emissive
         IN HighlightFrom([o EXCEPT !.originalEmissive[i] = stored,
                                    !.emissive = lit,
                                    !.isHighlighted[i] = TRUE], i + 1)

\* selectedObject.traverse of deselectObject: the restore pass over the meshes
RECURSIVE RestoreFrom(_, _)
RestoreFrom(o, i) ==
    IF i > Len(o.meshes) THEN o
    ELSE LET m == o.meshes[i]
             back == IF o.originalEmissive[i] # Unset /\ o.emissive[m] # NoEmissive
                     THEN [o.emissive EXCEPT ![m] = o.originalEmissive[i]]
                     ELSE o.emissive
         IN RestoreFrom([o EXCEPT !.emissive = back, !.isHighlighted[i] = FALSE], i + 1)

deselectObject(e) ==
    IF e.selectedObject # None
    THEN [e EXCEPT !.objects[e.selectedObject] = RestoreFrom(@, 1),
                   !.selectedObject = None,
                   !.attached = None,
                   !.tcEnabled = FALSE,
                   !.hist.snapshot = <<>>,
                   !.hist.deselected = e.selectedObject,
                   !.hist.before = e.hist.snapshot]
    ELSE [e EXCEPT !.attached = None, !.tcEnabled = FALSE]

\* the names selectObject refuses; no node of these scenes carries one
\* (an AxesHelper's name is the empty string)
IsHelperName(e, obj) == FALSE

selectObject(e, obj) ==
    IF obj = None THEN e
    ELSE IF IsHelperName(e, obj) THEN deselectObject(e)
    ELSE IF e.selectedObject = obj THEN e
    ELSE LET d == deselectObject(e)
         IN [d EXCEPT !.selectedObject = obj,
                      !.attached = obj,
                      !.tcEnabled = TRUE,
                      !.objects[obj] = HighlightFrom(@, 1),
                      !.hist.snapshot = d.objects[obj].emissive]

deselectFile(e) == [e EXCEPT !.selectedFile = NoFile]

selectFile(e, filePath) ==
    IF e.selectedFile = filePath THEN deselectFile(e)
    ELSE [e EXCEPT !.selectedFile = filePath]

\* the synchronous part of placeModel: the load of this.selectedFile starts
placeModel(e) ==
    IF e.selectedFile = NoFile THEN e
    ELSE [e EXCEPT !.pending = Append(@, [path |-> e.selectedFile])]

\* variant of the traverse that stops at the first mesh
DisposeAll_firstMeshOnly(o) ==
    [ geometries |-> {i \in 1..Len(o.meshes) : i = 1},
      materials  |-> {o.meshes[i] : i \in {j \in 1..Len(o.meshes) : j = 1}} ]

\* objectToRemove.traverse of deleteSelectedObject: the geometry of every
\* mesh (named by the mesh's index) and the material every mesh refers to
DisposeAll(o) ==
    [ geometries |-> 1..Len(o.meshes),
      materials  |-> {o.meshes[i] : i \in 1..Len(o.meshes)} ]

\* the removed node is referenced by nothing afterwards: its identity is free
\* for the next node the scene creates
deleteSelectedObject(e) ==
    IF e.selectedObject = None THEN e
    ELSE [e EXCEPT !.selectedObject = None,
                   !.attached = None,
                   !.tcEnabled = FALSE,
                   !.objects[e.selectedObject] = FreeObject,
                   !.hist.snapshot = <<>>,
                   !.hist.deleted = e.selectedObject,
                   !.hist.disposed = DisposeAll(e.objects[e.selectedObject]),
                   !.hist.had = e.objects[e.selectedObject].meshes]

\* variant of onMouseClick that disarms the file once a placement has started
onMouseClick_singleShot(e, button, hit) ==
    IF e.dragging THEN e
    ELSE IF button = 0
    THEN IF e.selectedFile # NoFile
         THEN deselectFile(deselectObject(placeModel(e)))
         ELSE IF hit # None THEN selectObject(e, hit)
         ELSE deselectObject(e)
    ELSE LET hadSelection == e.selectedObject # None \/ e.selectedFile # NoFile
             f == IF e.selectedFile # NoFile THEN deselectFile(e) ELSE e
             o == IF f.selectedObject # None THEN deselectObject(f) ELSE f
         IN IF hadSelection /\ hit # None THEN selectObject(o, hit) ELSE o

\* onMouseClick outside the UI; hit is the root of intersects[0].object or None
onMouseClick(e, button, hit) ==
    IF e.dragging THEN e
    ELSE IF button = 0
    THEN IF e.selectedFile # NoFile
         THEN deselectObject(placeModel(e))
         ELSE IF hit # None THEN selectObject(e, hit)
         ELSE deselectObject(e)
    ELSE LET hadSelection == e.selectedObject # None \/ e.selectedFile # NoFile
             f == IF e.selectedFile # NoFile THEN deselectFile(e) ELSE e
             o == IF f.selectedObject # None THEN deselectObject(f) ELSE f
         IN IF hadSelection /\ hit # None THEN selectObject(o, hit) ELSE o

\* the keys that change more than the gizmo mode ('g', 's' only switch it)
Keys == {"r", "delete", "backspace", "escape"}

onKeyDown(e, key) ==
    CASE key = "r" -> [e EXCEPT !.isRotating = TRUE]
      [] key \in {"delete", "backspace"} ->
            IF e.selectedObject # None THEN deleteSelectedObject(e) ELSE e
      [] key = "escape" -> deselectObject(e)
      [] OTHER -> e

onKeyUp(e, key) ==
    IF key = "r" THEN [e EXCEPT !.isRotating = FALSE] ELSE e

\* scene nodes a ray can hit: the axes helper and every object in the scene
InScene(e) == {i \in ObjIds : e.objects[i].where = "scene"}
FreeIds(e) == {i \in ObjIds : e.objects[i].where = "free"}
NextId(e) == CHOOSE i \in FreeIds(e) : \A j \in FreeIds(e) : i <= j


(***************************************************************************)
(*                  AssetLevelEditor: the actions                          *)
(***************************************************************************)

\* what lastE remembers of the step just taken: the handler that ran
StepE(op) == [op |-> op]

\* every handler starts with no object deselected by it yet
Begin(e) ==
    [e EXCEPT !.hist.deselected = None, !.hist.before = <<>>,
              !.hist.deleted = None, !.hist.had = <<>>,
              !.hist.disposed = NoDisposal]

\* a file entry of the asset browser panel is clicked
SelectFileE(f) ==
    /\ page = "editor"
    /\ editor' = selectFile(Begin(editor), f)
    /\ lastE' = StepE("selectFile")
    /\ UNCHANGED <<page, browser, input, lastB, io, calc>>

\* mousedown on the document, outside the UI panels
MouseClickE(button, hit) ==
    /\ page = "editor"
    /\ hit \in InScene(editor) \cup {None}
    /\ (button = 0 /\ editor.selectedFile # NoFile /\ ~editor.dragging)
          => /\ Len(editor.pending) < MaxPending
             /\ Cardinality(FreeIds(editor)) > Len(editor.pending)
    /\ editor' = onMouseClick(Begin(editor), button, hit)
    /\ lastE' = StepE(IF button = 0 THEN "leftClick" ELSE "rightClick")
    /\ UNCHANGED <<page, browser, input, lastB, io, calc>>

KeyDownE(key) ==
    /\ page = "editor"
    /\ editor' = onKeyDown(Begin(editor), key)
    /\ lastE' = StepE("keyDown")
    /\ UNCHANGED <<page, browser, input, lastB, io, calc>>

KeyUpE(key) ==
    /\ page = "editor"
    /\ editor' = onKeyUp(Begin(editor), key)
    /\ lastE' = StepE("keyUp")
    /\ UNCHANGED <<page, browser, input, lastB, io, calc>>

\* the continuation of placeModel after `await loadModel(this.selectedFile)`:
\* the model is tagged with the file armed now, or a demo cube replaces it
placeModelDone(e, k, ok, shape) ==
    LET id == NextId(e)
        rest == [i \in 1..(Len(e.pending) - 1) |->
                    IF i < k THEN e.pending[i] ELSE e.pending[i + 1]]
        node == IF ok THEN NewObject(shape, TRUE, e.selectedFile)
                ELSE NewObject(CubeShape, TRUE, NoFile)
    IN [e EXCEPT !.pending = rest, !.objects[id] = node]

LoadDoneE(k, ok, shape) ==
    /\ page = "editor"
    /\ k \in 1..Len(editor.pending)
    /\ FreeIds(editor) # {}
    /\ editor' = placeModelDone(Begin(editor), k, ok, shape)
    /\ lastE' = StepE(IF ok THEN "loaded" ELSE "loadFailed")
    /\ UNCHANGED <<page, browser, input, lastB, io, calc>>

\* the 'dragging-changed' listener of the constructor
draggingChanged(e, value) ==
    [e EXCEPT !.dragging = value, !.controlsEnabled = ~value]

\* TransformControls starts a drag on its attached object
DragStartE ==
    /\ page = "editor"
    /\ editor.attached # None /\ editor.tcEnabled /\ ~editor.dragging
    /\ editor' = draggingChanged(Begin(editor), TRUE)
    /\ lastE' = StepE("dragStart")
    /\ UNCHANGED <<page, browser, input, lastB, io, calc>>

DragEndE ==
    /\ page = "editor"
    /\ editor.dragging /\ editor.tcEnabled
    /\ editor' = draggingChanged(Begin(editor), FALSE)
    /\ lastE' = StepE("dragEnd")
    /\ UNCHANGED <<page, browser, input, lastB, io, calc>>

NextE ==
    \/ \E f \in Files : SelectFileE(f)
    \/ \E button \in {0, 2}, hit \in ObjIds \cup {None} : MouseClickE(button, hit)
    \/ \E key \in Keys : KeyDownE(key)
    \/ \E key \in Keys : KeyUpE(key)
    \/ \E k \in 1..MaxPending, ok \in BOOLEAN, shape \in ModelShapes : LoadDoneE(k, ok, shape)
    \/ DragStartE
    \/ DragEndE

NoStepE == [op |-> "init"]


(***************************************************************************)
(*              AssetBrowser + InputHandler  (Babylon.js)                  *)
(***************************************************************************)

\* file buttons of the file list (the armed file is a bare file name)
FileNames == {"door.glb", "barrel.glb"}

\* pointer positions (clientX, in pixels) an event can carry
Xs == {0, DragDistance}

\* what a pick can return: no hit, the water plane, a fallback box (both are
\* root meshes without child meshes), or a mesh of placed model i (1..MaxModels)
WaterId == 0
FallbackHit == -2
ModelIds == 1..MaxModels

\* `material` of the child meshes of a placed model's root, as getChildMeshes
\* lists them: the glTF __root__ mesh has none, two meshes may share one
NoMaterial == "null"
ModelMaterials ==
    { <<NoMaterial, "m1">>,
      <<NoMaterial, "m1", "m1">>,
      <<NoMaterial, "m1", "m2">> }

\* highlightMaterial.clone(`highlight_${mesh.uniqueId}`) for child mesh i
CloneNames == <<"highlight_1", "highlight_2", "highlight_3">>
Clone(i) == CloneNames[i]

FreeNode == [where |-> "free", material |-> <<>>, rotY |-> 0, disposed |-> {}]

\* the root TransformNode placeObject creates, with the imported meshes
NewModel(materials) ==
    [where |-> "scene", material |-> materials, rotY |-> 0, disposed |-> {}]

NoEntry == <<>>

\* History kept for the properties (no handler reads it): before is the
\* material list of the selected object when handleObjectSelection recorded
\* it; cleared / was name the object the last event ran
\* clearObjectSelection's restore on, and its list; turned sums the yaw
\* increments since startRotation last set lastPointerX to from.
NoHistB == [before |-> <<>>, cleared |-> None, was |-> <<>>, from |-> 0, turned |-> 0]

BrowserInit ==
    [ selectedFile          |-> NoFile,
      selectedObject        |-> None,
      isRotating            |-> FALSE,
      lastPointerX          |-> 0,
      cameraControlsEnabled |-> TRUE,
      sceneClickObserver    |-> FALSE,
      nodes                 |-> [i \in ModelIds |-> FreeNode],
      fallbacks             |-> 0,
      debugSpheres          |-> 0,
      originalMaterials     |-> [i \in ModelIds |-> NoEntry],
      placedModels          |-> <<>>,
      pending               |-> <<>>,
      hist                  |-> NoHistB ]

InputInit ==
    [ isPanning    |-> FALSE,
      isRotating   |-> FALSE,
      lastX        |-> 0,
      pointerDownX |-> 0 ]

enableCameraControls(b) ==
    IF ~b.cameraControlsEnabled THEN [b EXCEPT !.cameraControlsEnabled = TRUE] ELSE b

disableCameraControls(b) ==
    IF b.cameraControlsEnabled THEN [b EXCEPT !.cameraControlsEnabled = FALSE] ELSE b

\* selectedObject.getChildMeshes(): the descendants of a model's root; a root
\* mesh (water, fallback box) is not its own child
ChildMeshes(b, root) ==
    IF root \in ModelIds THEN 1..Len(b.nodes[root].material) ELSE {}

\* variant of RestoreMaterials that reassigns first and disposes afterwards:
\* mesh.material.dispose() then hits the original material
RECURSIVE RestoreMaterials_disposeAfter(_, _, _)
RestoreMaterials_disposeAfter(n, orig, i) ==
    IF i > Len(n.material) THEN n
    ELSE IF n.material[i] # NoMaterial /\ orig[i] # NoMaterial
         THEN RestoreMaterials_disposeAfter(
                [n EXCEPT !.disposed = (@ \cup {orig[i]}),
                          !.material[i] = orig[i]], orig, i + 1)
         ELSE RestoreMaterials_disposeAfter(n, orig, i + 1)

\* the forEach of clearObjectSelection over child meshes i..n of node o
RECURSIVE RestoreMaterials(_, _, _)
RestoreMaterials(n, orig, i) ==
    IF i > Len(n.material) THEN n
    ELSE IF n.material[i] # NoMaterial /\ orig[i] # NoMaterial
         THEN RestoreMaterials(
                [n EXCEPT !.disposed = (@ \cup {n.material[i]}),
                          !.material[i] = orig[i]], orig, i + 1)
         ELSE RestoreMaterials(n, orig, i + 1)

clearObjectSelection(b) ==
    IF b.selectedObject # None
    THEN LET o == b.selectedObject
             orig == b.originalMaterials[o]
             r == IF orig # NoEntry
                  THEN [b EXCEPT !.nodes[o] = RestoreMaterials(@, orig, 1),
                                 !.originalMaterials[o] = NoEntry]
                  ELSE b
         IN enableCameraControls(
               [r EXCEPT !.selectedObject = None,
                         !.hist.before = <<>>,
                         !.hist.cleared = o,
                         !.hist.was = b.hist.before])
    ELSE b

\* the forEach of handleObjectSelection: record the material, wear a clone
\* (a clone is a new material object: nothing has disposed it)
RECURSIVE ApplyHighlight(_, _)
ApplyHighlight(n, i) ==
    IF i > Len(n.material) THEN n
    ELSE IF n.material[i] # NoMaterial
         THEN ApplyHighlight([n EXCEPT !.material[i] = Clone(i),
                                       !.disposed = (@ \ {Clone(i)})], i + 1)
         ELSE ApplyHighlight(n, i + 1)

\* hit: what scene.pick returns at the pointer (None: no hit)
handleObjectSelection(b, hit) ==
    IF b.selectedFile # NoFile THEN b
    ELSE IF hit = None THEN clearObjectSelection(b)
    ELSE IF b.selectedObject = hit THEN clearObjectSelection(b)
    ELSE LET c == clearObjectSelection(b)
             d == disableCameraControls([c EXCEPT !.selectedObject = hit])
             recorded == {i \in ChildMeshes(d, hit) : d.nodes[hit].material[i] # NoMaterial}
         IN IF recorded # {}
            THEN [d EXCEPT !.originalMaterials[hit] = d.nodes[hit].material,
                           !.nodes[hit] = ApplyHighlight(@, 1),
                           !.hist.before = d.nodes[hit].material]
            ELSE [d EXCEPT !.selectedObject = None]

clearSelection(b) == clearObjectSelection([b EXCEPT !.selectedFile = NoFile])

\* selectFile arms the file and (re)installs the scene pointer observer
selectFileB(b, filePath) ==
    [clearObjectSelection([b EXCEPT !.selectedFile = filePath])
        EXCEPT !.sceneClickObserver = TRUE]

startRotation(b, clientX) ==
    IF b.selectedObject # None
    THEN [b EXCEPT !.isRotating = TRUE, !.lastPointerX = clientX,
                   !.hist.from = clientX, !.hist.turned = 0]
    ELSE b

\* rotationSpeed is 0.01 rad per pixel: rotY counts hundredths of a radian.
\* hasEvent is FALSE when the argument is not a PointerInfo (no .event):
\* reading pointerInfo.event.clientX then throws and the caller catches it.
handleRotation(b, hasEvent, clientX) ==
    IF b.isRotating /\ b.selectedObject # None /\ hasEvent
    THEN LET deltaX == clientX - b.lastPointerX
         IN [b EXCEPT !.nodes[b.selectedObject].rotY = @ + deltaX * RotationSpeed,
                      !.lastPointerX = clientX,
                      !.hist.turned = @ + deltaX * RotationSpeed]
    ELSE b

stopRotation(b) == [b EXCEPT !.isRotating = FALSE, !.hist.from = 0, !.hist.turned = 0]

\* the synchronous part of placeObject: the debug sphere is put at the click
\* point and the import of the armed file starts
placeObject(b) ==
    IF b.selectedFile = NoFile THEN b
    ELSE [b EXCEPT !.pending = Append(@, [file |-> b.selectedFile]),
                   !.debugSpheres = @ + 1]



(***************************************************************************)
(*            AssetBrowser + InputHandler: the handlers' wiring            *)
(***************************************************************************)

\* InputHandler compares selectedObject with the picked mesh itself, not with
\* its root: they are the same node only when a root mesh is selected
PickedMeshIsSelected(b, hit) == hit \notin ModelIds /\ b.selectedObject = hit

\* the scene pointer observer selectFile installs, by pointer event type
observerDown(b, button, clientX) ==
    IF ~b.sceneClickObserver THEN b
    ELSE IF button = 2 THEN clearSelection(b)
    ELSE startRotation(b, clientX)

observerMove(b, clientX) ==
    IF ~b.sceneClickObserver THEN b ELSE handleRotation(b, TRUE, clientX)

observerPick(b, hit) ==
    IF ~b.sceneClickObserver THEN b
    ELSE IF b.selectedFile # NoFile
         THEN (IF hit # None THEN placeObject(b) ELSE b)
         ELSE handleObjectSelection(b, hit)

observerUp(b) ==
    IF ~b.sceneClickObserver THEN b ELSE stopRotation(b)

\* the canvas listeners of InputHandler; st is [b |-> browser, i |-> input]
handlePointerDown(st, button, currentX, hit) ==
    LET i1 == [st.i EXCEPT !.lastX = currentX]
    IN IF button = 2 THEN [b |-> st.b, i |-> [i1 EXCEPT !.isPanning = TRUE]]
       ELSE LET i2 == [i1 EXCEPT !.pointerDownX = currentX]
            IN IF hit = None THEN [b |-> st.b, i |-> i2]
               ELSE IF st.b.selectedFile # NoFile
                    THEN [b |-> placeObject(st.b), i |-> i2]
               ELSE IF PickedMeshIsSelected(st.b, hit)
                    THEN [b |-> startRotation(st.b, currentX),
                          i |-> [i2 EXCEPT !.isRotating = TRUE]]
               ELSE [b |-> handleObjectSelection(st.b, hit), i |-> i2]

handlePointerMove(st, currentX) ==
    LET deltaX == currentX - st.i.lastX
        b1 == IF st.i.isPanning THEN st.b
              ELSE IF st.i.isRotating /\ st.b.selectedObject # None /\ deltaX # 0
                   THEN handleRotation(st.b, FALSE, deltaX)
                   ELSE st.b
    IN [b |-> b1, i |-> [st.i EXCEPT !.lastX = currentX]]

Abs(n) == IF n < 0 THEN -n ELSE n

\* quick: the release came within CLICK_MAX_DURATION of the press
handlePointerUp(st, button, pointerUpX, hit, quick) ==
    IF button = 2 THEN [b |-> st.b, i |-> [st.i EXCEPT !.isPanning = FALSE]]
    ELSE IF st.i.isRotating
         THEN [b |-> stopRotation(st.b), i |-> [st.i EXCEPT !.isRotating = FALSE]]
    ELSE IF quick /\ Abs(pointerUpX - st.i.pointerDownX) < CLICK_THRESHOLD /\ hit # None
         THEN [b |-> handleObjectSelection(st.b, hit), i |-> st.i]
    ELSE st

\* what a pick at the pointer can return in the scene as it is
HitsB(b) ==
    {None, WaterId}
        \cup (IF b.fallbacks > 0 THEN {FallbackHit} ELSE {})
        \cup {m \in ModelIds : b.nodes[m].where = "scene"}

FreeNodes(b) == {m \in ModelIds : b.nodes[m].where = "free"}
NextNode(b) == CHOOSE m \in FreeNodes(b) : \A n \in FreeNodes(b) : m <= n

\* every event starts with no object cleared by it yet
BeginB(b) == [b EXCEPT !.hist.cleared = None, !.hist.was = <<>>]

Buttons == {0, 2}
Held(button) == IF button = 0 THEN "left" ELSE "right"

(***************************************************************************)
(*              AssetBrowser + InputHandler: the actions                   *)
(*                                                                         *)
(* A pointer event reaches both the scene pointer observer (once           *)
(* selectFile has installed it) and the canvas listener of InputHandler;   *)
(* sceneFirst says which of the two runs first.                            *)
(***************************************************************************)

\* a file button of the file list is clicked
SelectFileB(f) ==
    /\ page = "browser"
    /\ browser' = selectFileB(BeginB(browser), f)
    /\ lastB' = [lastB EXCEPT !.op = "selectFile"]
    /\ UNCHANGED <<page, editor, lastE, input, io, calc>>

PointerDownB(button, x, hit, sceneFirst) ==
    /\ page = "browser"
    /\ lastB.held = "none"
    /\ hit \in HitsB(browser)
    /\ LET Obs(b) == observerDown(b, button, x)
           Inp(st) == handlePointerDown(st, button, x, hit)
           st0 == [b |-> BeginB(browser), i |-> input]
           u == Inp(st0)
           t == IF sceneFirst THEN Inp([b |-> Obs(st0.b), i |-> st0.i])
                ELSE [b |-> Obs(u.b), i |-> u.i]
       IN /\ Len(t.b.pending) <= MaxLoads
          /\ browser' = t.b
          /\ input' = t.i
    /\ lastB' = [op |-> IF button = 0 THEN "leftDown" ELSE "rightDown", held |-> Held(button)]
    /\ UNCHANGED <<page, editor, lastE, io, calc>>

PointerMoveB(x, sceneFirst) ==
    /\ page = "browser"
    /\ LET Obs(b) == observerMove(b, x)
           Inp(st) == handlePointerMove(st, x)
           st0 == [b |-> BeginB(browser), i |-> input]
           u == Inp(st0)
           t == IF sceneFirst THEN Inp([b |-> Obs(st0.b), i |-> st0.i])
                ELSE [b |-> Obs(u.b), i |-> u.i]
       IN /\ \A m \in ModelIds : Abs(t.b.nodes[m].rotY) <= MaxYaw
          /\ browser' = t.b
          /\ input' = t.i
    /\ lastB' = [lastB EXCEPT !.op = "move"]
    /\ UNCHANGED <<page, editor, lastE, io, calc>>

\* pick: the scene reports the release as a POINTERPICK (before POINTERUP)
PointerUpB(button, x, hit, quick, pick, sceneFirst) ==
    /\ page = "browser"
    /\ lastB.held = Held(button)
    /\ hit \in HitsB(browser)
    /\ pick => hit # None
    /\ LET Obs(b) == observerUp(IF pick THEN observerPick(b, hit) ELSE b)
           Inp(st) == handlePointerUp(st, button, x, hit, quick)
           st0 == [b |-> BeginB(browser), i |-> input]
           u == Inp(st0)
           t == IF sceneFirst THEN Inp([b |-> Obs(st0.b), i |-> st0.i])
                ELSE [b |-> Obs(u.b), i |-> u.i]
       IN /\ Len(t.b.pending) <= MaxLoads
          /\ browser' = t.b
          /\ input' = t.i
    /\ lastB' = [op |-> IF button = 0 THEN "leftUp" ELSE "rightUp", held |-> "none"]
    /\ UNCHANGED <<page, editor, lastE, io, calc>>

\* the continuation of placeObject after `await ImportMeshAsync`: a root
\* TransformNode with the meshes is tracked and the debug sphere disposed (by
\* the 500 ms timer the success path sets, taken with it here), or the catch
\* adds a fallback box and leaves the sphere where it is
placeObjectDone(b, k, ok, materials) ==
    LET rest == [j \in 1..(Len(b.pending) - 1) |->
                    IF j < k THEN b.pending[j] ELSE b.pending[j + 1]]
    IN IF ok
       THEN LET id == NextNode(b)
            IN [b EXCEPT !.pending = rest,
                         !.nodes[id] = NewModel(materials),
                         !.placedModels = Append(@, [mesh |-> id, file |-> b.pending[k].file]),
                         !.debugSpheres = @ - 1]
       ELSE [b EXCEPT !.pending = rest, !.fallbacks = @ + 1]

ImportDoneB(k, ok, materials) ==
    /\ page = "browser"
    /\ k \in 1..Len(browser.pending)
    /\ IF ok THEN FreeNodes(browser) # {} ELSE browser.fallbacks < MaxFallbacks
    /\ browser' = placeObjectDone(BeginB(browser), k, ok, materials)
    /\ lastB' = [lastB EXCEPT !.op = IF ok THEN "imported" ELSE "importFailed"]
    /\ UNCHANGED <<page, editor, lastE, input, io, calc>>

NextB ==
    \/ \E f \in FileNames : SelectFileB(f)
    \/ \E button \in Buttons, x \in Xs, hit \in ModelIds \cup {None, WaterId, FallbackHit},
          sceneFirst \in BOOLEAN : PointerDownB(button, x, hit, sceneFirst)
    \/ \E x \in Xs, sceneFirst \in BOOLEAN : PointerMoveB(x, sceneFirst)
    \/ \E button \in Buttons, x \in Xs, hit \in ModelIds \cup {None, WaterId, FallbackHit},
          quick \in BOOLEAN, pick \in BOOLEAN, sceneFirst \in BOOLEAN :
             PointerUpB(button, x, hit, quick, pick, sceneFirst)
    \/ \E k \in 1..MaxLoads, ok \in BOOLEAN, materials \in ModelMaterials :
             ImportDoneB(k, ok, materials)

NoStepB == [op |-> "init", held |-> "none"]

(***************************************************************************)
(*                         The whole page                                  *)
(***************************************************************************)

\* the scene-document and placement-arithmetic parts are at rest here
NoIO == [variant |-> "none"]
NoCalc == [op |-> "none"]

Init ==
    /\ page \in {"editor", "browser"}
    /\ editor = EditorInit
    /\ lastE = NoStepE
    /\ browser = BrowserInit
    /\ input = InputInit
    /\ lastB = NoStepB
    /\ io = NoIO
    /\ calc = NoCalc

Next == NextE \/ NextB

Spec == Init /\ [][Next]_vars


(***************************************************************************)
(*        AssetLevelEditor: scene documents (saveScene / loadScene)        *)
(***************************************************************************)

\* placed objects the scene holds at most
MaxPlaced == 2
\* nodes the page constructs at most in one session
MaxUuids == 4

\* Lengths are whole units, Euler angles hundredths of a radian, quaternion
\* components thousandths.  The orientations the scene objects take: the
\* identity and a quarter turn about the y axis, each with the Euler angles
\* and the quaternion three.js keeps in step for it.
Identity == [rotation |-> <<0, 0, 0>>, quaternion |-> <<0, 0, 0, 1000>>]
QuarterTurn == [rotation |-> <<0, 157, 0>>, quaternion |-> <<0, 707, 0, 707>>]
Orientations == {Identity, QuarterTurn}

\* rotation.set(x, y, z) / rotation.fromArray: the quaternion follows
setFromEuler(n, r) ==
    LET o == CHOOSE o \in Orientations : o.rotation = r
    IN [n EXCEPT !.rotation = o.rotation, !.quaternion = o.quaternion]

\* quaternion.set(x, y, z, w): the Euler angles follow
setFromQuaternion(n, q) ==
    LET o == CHOOSE o \in Orientations : o.quaternion = q
    IN [n EXCEPT !.rotation = o.rotation, !.quaternion = o.quaternion]

\* the grid point the clicks of this model land on; the scale of a loaded
\* model, and of one doubled with the gizmo
ClickPoint == <<1, 0, 3>>
Origin == <<0, 0, 0>>
UnitScale == <<1, 1, 1>>
Doubled == <<2, 2, 2>>

\* JSON objects are records, a JSON array of numbers is [array |-> tuple], an
\* absent member is an absent field
Vec(t) == [x |-> t[1], y |-> t[2], z |-> t[3]]
Quat(t) == [x |-> t[1], y |-> t[2], z |-> t[3], w |-> t[4]]
Arr(t) == [array |-> t]
Has(o, field) == field \in DOMAIN o
IsArray(v) == Has(v, "array")

\* a JSON string and a JSON number, where a member can hold either
Str(s) == [string |-> s]
Num(n) == [number |-> n]

\* v || d for a number v
OrElse(v, d) == IF v = 0 THEN d ELSE v

\* Object3D.uuid values are whole numbers from 1; userData.originalUuid is
\* NoUuid where it is undefined
NoUuid == 0

\* a placed node of the three.js scene; properties is the mapping every reader
\* takes as `userData.properties || {}`; the constructor of the node gives it
\* its uuid (see Object3D)
gltfScene ==
    [ kind         |-> "model",
      originalFile |-> NoFile,
      position     |-> Origin,
      rotation     |-> Identity.rotation,
      quaternion   |-> Identity.quaternion,
      scale        |-> UnitScale,
      properties   |-> {},
      uuid         |-> NoUuid,
      originalUuid |-> NoUuid ]

createDemoCubeAt(position) ==
    [gltfScene EXCEPT !.kind = "cube", !.position = position]

\* placeModel run to its end: the loaded model at the snapped click point,
\* tagged with the armed file, or the demo cube
placed(ok, file) ==
    IF ok THEN [gltfScene EXCEPT !.position = ClickPoint, !.originalFile = file]
    ELSE createDemoCubeAt(ClickPoint)

\* originalFile.split('/').pop()
Basename(path) ==
    CASE path = "Assets/3D/Castle/door.glb" -> "door.glb"
      [] path = "Assets/3D/Pirate/barrel.glb" -> "barrel.glb"
      [] OTHER -> path

\* variant of objectData22 that writes the node's own uuid as originalUuid
objectData22_ownUuid(n) ==
    [ name       |-> IF n.originalFile = NoFile THEN "unknown" ELSE Basename(n.originalFile),
      position   |-> Vec(n.position),
      rotation   |-> Vec(n.rotation),
      scale      |-> Vec(n.scale),
      path       |-> IF n.originalFile = NoFile THEN "" ELSE n.originalFile,
      uuid       |-> n.uuid,
      originalUuid |-> n.uuid,
      properties |-> n.properties ]

\* the object literal saveScene (version 2.2) pushes for a placed node
objectData22(n) ==
    [ name       |-> IF n.originalFile = NoFile THEN "unknown" ELSE Basename(n.originalFile),
      position   |-> Vec(n.position),
      rotation   |-> Vec(n.rotation),
      scale      |-> Vec(n.scale),
      path       |-> IF n.originalFile = NoFile THEN "" ELSE n.originalFile,
      uuid       |-> n.uuid,
      originalUuid |-> OrElse(n.originalUuid, n.uuid),
      properties |-> n.properties ]

\* the object literal saveScene (version 2.0 variant) pushes; ids count from 1
objectData20(n, objectId) ==
    [ name               |-> IF n.originalFile = NoFile THEN "unknown" ELSE Basename(n.originalFile),
      position           |-> Vec(n.position),
      rotationQuaternion |-> Quat(n.quaternion),
      scale              |-> Vec(n.scale),
      path               |-> IF n.originalFile = NoFile THEN "" ELSE n.originalFile,
      id                 |-> objectId ]

\* saveScene: every node of the scene is a placed one here (scene.traverse
\* keeps the order of the scene's children)
saveScene(variant, scene) ==
    [ version  |-> Str(variant),
      metadata |-> [objectCount |-> Len(scene)],
      objects  |-> [i \in 1..Len(scene) |->
                      IF variant = "2.2" THEN objectData22(scene[i])
                      ELSE objectData20(scene[i], i)] ]

\* a file the user can pick: text that JSON.parse takes, with the value it
\* yields, or text it throws on.  JSON.stringify writes every number of a
\* saved document in a form JSON.parse reads back to the same number.
JSONstringify(value) == [parses |-> TRUE, value |-> value]

\* the file saveScene hands to the browser; `of` is the scene it was written
\* from (no handler reads it)
Download(variant, scene) ==
    [parses |-> TRUE, value |-> saveScene(variant, scene), of |-> scene]
Garbage == [parses |-> FALSE]

\* member `field` of a vector literal, or 0 where it is absent (undefined || d
\* and 0 || d both give d)
Member(v, field, d) == IF Has(v, field) THEN OrElse(v[field], d) ELSE d

\* the position both loadScene variants give a model, and the placeholder
PositionOf(isNewFormat, objData) ==
    IF isNewFormat /\ Has(objData, "position")
    THEN LET p == objData.position
         IN <<Member(p, "x", 0), Member(p, "y", 0), Member(p, "z", 0)>>
    ELSE IF Has(objData, "position") /\ IsArray(objData.position)
         THEN objData.position.array
         ELSE Origin

ScaleOf(objData) ==
    IF Has(objData, "scale")
    THEN IF IsArray(objData.scale) THEN objData.scale.array
         ELSE LET c == objData.scale
              IN <<Member(c, "x", 1), Member(c, "y", 1), Member(c, "z", 1)>>
    ELSE UnitScale

\* the try block of a load promise of loadScene (version 2.2), past the await
model22(isNewFormat, objData, modelPath) ==
    LET m == [gltfScene EXCEPT !.position = PositionOf(isNewFormat, objData),
                               !.scale = ScaleOf(objData),
                               !.originalFile = modelPath]
        r == IF isNewFormat /\ Has(objData, "rotation")
             THEN LET a == objData.rotation
                  IN setFromEuler(m, <<Member(a, "x", 0), Member(a, "y", 0), Member(a, "z", 0)>>)
             ELSE IF Has(objData, "rotation") /\ IsArray(objData.rotation)
                  THEN setFromEuler(m, objData.rotation.array)
                  ELSE m
        u == IF isNewFormat /\ Has(objData, "uuid") /\ objData.uuid # NoUuid
             THEN [r EXCEPT !.originalUuid = objData.uuid] ELSE r
        v == IF isNewFormat /\ Has(objData, "originalUuid") /\ objData.originalUuid # NoUuid
             THEN [u EXCEPT !.originalUuid = objData.originalUuid] ELSE u
    IN IF isNewFormat /\ Has(objData, "properties")
       THEN [v EXCEPT !.properties = objData.properties]
       ELSE v

\* the try block of the loop body of loadScene (version 2.0), past the await
model20(isNewFormat, objData, modelPath) ==
    LET m == [gltfScene EXCEPT !.position = PositionOf(isNewFormat, objData),
                               !.scale = ScaleOf(objData),
                               !.originalFile = modelPath]
    IN IF isNewFormat /\ Has(objData, "rotationQuaternion")
       THEN LET q == objData.rotationQuaternion
            IN setFromQuaternion(m, << Member(q, "x", 0), Member(q, "y", 0), Member(q, "z", 0),
                                       IF Has(q, "w") THEN q.w ELSE 1000 >>)
       ELSE IF Has(objData, "rotation") /\ IsArray(objData.rotation)
            THEN setFromEuler(m, objData.rotation.array)
            ELSE m

\* isNewFormat ? objData.path : objData.file, "" where it is falsy
ModelPath(isNewFormat, objData) ==
    LET field == IF isNewFormat THEN "path" ELSE "file"
    IN IF Has(objData, field) THEN objData[field] ELSE ""

\* sceneData.version && sceneData.version.startsWith('2.'): "throws" where
\* the version is a number other than 0, which has no startsWith
StartsWith2(text) == text \in {"2.0", "2.2"}

IsNewFormat22(sceneData) ==
    IF ~Has(sceneData, "version") THEN "false"
    ELSE IF Has(sceneData.version, "number")
         THEN (IF sceneData.version.number = 0 THEN "false" ELSE "throws")
         ELSE IF StartsWith2(sceneData.version.string) THEN "true" ELSE "false"

\* sceneData.version === '2.0' && Array.isArray(sceneData.objects)
IsNewFormat20(sceneData) ==
    IF /\ Has(sceneData, "version")
       /\ Has(sceneData.version, "string")
       /\ sceneData.version.string = "2.0"
       /\ Has(sceneData, "objects")
    THEN "true" ELSE "false"

\* nothing saved yet
NoDownload == [written |-> FALSE]

\* THREE.MathUtils.generateUUID(): a random uuid, which none made before
\* equals; the uuids are named in the order they are made
generateUUID(s) == s.generated + 1

\* the Object3D constructor: the node gets its uuid
Object3D(n, s) == [n EXCEPT !.uuid = generateUUID(s)]

\* uuids an earlier session made
Earlier == 100


\* no load in progress
NotLoading == [active |-> FALSE]

NoHistIO == [before |-> <<>>, picked |-> Garbage, results |-> <<>>]

\* what console.log has been told of the last load
NoLog == [lines |-> 0]

\* the state of the page around its scene documents.  selectedObject is null
\* (NoUuid) or refers to a node, which its uuid names; stale: the node it
\* refers to is one loadScene has removed from the scene (a node loaded since
\* may carry the same uuid).  propertiesList is the rows of the properties
\* panel, each the text of its key and value input; keyBy and valueBy (no
\* handler reads them) name the object that was selected when the text of the
\* input was entered, removing says that the timer its delete button set has
\* not run yet.  addTimer: the timer an Enter in a value input set has not
\* run yet.
\* hist is kept for the
\* properties (no handler reads it): before is the scene as loadScene found
\* it, picked the file it was given, results how each entry of the document
\* ended.  earlier is a load that was still on its way when loadScene was
\* called again, placing the files of the placeModel calls waiting for their
\* model.
IOInit(variant) ==
    [ variant  |-> variant,
      scene    |-> <<>>,
      generated |-> 0,
      selectedObject |-> NoUuid,
      stale    |-> FALSE,
      propertiesList |-> <<>>,
      addTimer |-> FALSE,
      download |-> NoDownload,
      alerted  |-> FALSE,
      loading  |-> NotLoading,
      earlier  |-> NotLoading,
      placing  |-> <<>>,
      log      |-> NoLog,
      hist     |-> NoHistIO,
      op       |-> "init" ]

\* loadScene from its start to the first model load it waits for
loadScene(s, file) ==
    LET h == [s EXCEPT !.hist = [before |-> s.scene, picked |-> file, results |-> <<>>],
                       !.alerted = FALSE, !.log = NoLog]
        failed == [h EXCEPT !.alerted = TRUE]
    IN IF ~file.parses THEN failed
       ELSE LET sceneData == file.value
                isNew == IF s.variant = "2.2" THEN IsNewFormat22(sceneData)
                         ELSE IsNewFormat20(sceneData)
            IN IF isNew = "throws" THEN failed
               ELSE LET cleared == [h EXCEPT !.scene = <<>>,
                                             !.stale = @ \/ s.selectedObject # NoUuid]
                        isNewFormat == isNew = "true"
                    IN IF ~Has(sceneData, "objects")
                       THEN IF isNewFormat
                            THEN [cleared EXCEPT !.alerted = TRUE]
                            ELSE [cleared EXCEPT !.loading =
                                     [active |-> TRUE, isNewFormat |-> FALSE,
                                      objects |-> <<>>, results |-> <<>>]]
                       ELSE [cleared EXCEPT !.loading =
                                [ active      |-> TRUE,
                                  isNewFormat |-> isNewFormat,
                                  objects     |-> sceneData.objects,
                                  results     |-> [i \in 1..Len(sceneData.objects) |->
                                      IF ModelPath(isNewFormat, sceneData.objects[i]) = ""
                                      THEN [state |-> "null"]
                                      ELSE [state |-> "pending"]] ]]

\* variant of loadSettles in which a rejected load gives up the entries that
\* are still waiting
loadSettles_abortOnFailure(s, i, ok) ==
    LET l == s.loading
        objData == l.objects[i]
        modelPath == ModelPath(l.isNewFormat, objData)
        model == IF s.variant = "2.2" THEN model22(l.isNewFormat, objData, modelPath)
                 ELSE model20(l.isNewFormat, objData, modelPath)
        cube == createDemoCubeAt(PositionOf(l.isNewFormat, objData))
        node == Object3D(IF ok THEN model ELSE cube, s)
        results == [j \in 1..Len(l.results) |->
                      IF j = i THEN [state |-> IF ok THEN "model" ELSE "cube", node |-> node]
                      ELSE IF ~ok /\ l.results[j].state = "pending" THEN [state |-> "null"]
                      ELSE l.results[j]]
    IN [s EXCEPT !.loading.results = results,
                 !.generated = @ + 1,
                 !.scene = IF ok /\ s.variant = "2.2" THEN @ ELSE Append(@, node)]

\* one model load settles: loader.loadAsync resolves (ok) or rejects.  In the
\* version 2.2 class the model waits in the promise and the placeholder goes
\* into the scene at once; in the version 2.0 class either joins the scene.
loadSettles(s, i, ok) ==
    LET l == s.loading
        objData == l.objects[i]
        modelPath == ModelPath(l.isNewFormat, objData)
        model == IF s.variant = "2.2" THEN model22(l.isNewFormat, objData, modelPath)
                 ELSE model20(l.isNewFormat, objData, modelPath)
        cube == createDemoCubeAt(PositionOf(l.isNewFormat, objData))
        node == Object3D(IF ok THEN model ELSE cube, s)
    IN [s EXCEPT !.loading.results[i] = [state |-> IF ok THEN "model" ELSE "cube", node |-> node],
                 !.generated = @ + 1,
                 !.scene = IF ok /\ s.variant = "2.2" THEN @ ELSE Append(@, node)]

Settled(l) == {i \in 1..Len(l.results) : l.results[i].state \in {"model", "cube"}}
Pending(l) == {i \in 1..Len(l.results) : l.results[i].state = "pending"}

RECURSIVE NodesFrom(_, _)
NodesFrom(results, i) ==
    IF i > Len(results) THEN <<>>
    ELSE IF results[i].state = "null" THEN NodesFrom(results, i + 1)
    ELSE <<results[i].node>> \o NodesFrom(results, i + 1)

\* Object3D.add: a node that is a child already moves to the end
sceneAdd(scene, node) ==
    LET Other(n) == n.uuid # node.uuid
    IN Append(SelectSeq(scene, Other), node)

RECURSIVE AddAll(_, _, _)
AddAll(scene, nodes, i) ==
    IF i > Len(nodes) THEN scene
    ELSE AddAll(sceneAdd(scene, nodes[i]), nodes, i + 1)

\* loadScene past Promise.all (2.2) or past its loop (2.0).  scene.add of a
\* placeholder that is a child already moves it to the end, so the children
\* of a scene that was cleared and left alone end up in the order of the
\* document.
loadSceneEnd(s) ==
    LET l == s.loading
    IN IF s.variant = "2.2"
       THEN [s EXCEPT !.scene = AddAll(@, NodesFrom(l.results, 1), 1),
                      !.loading = NotLoading,
                      !.hist.results = l.results,
                      !.log = [lines |-> 2,
                               loaded |-> Cardinality(Settled(l)),
                               objects |-> Len(l.objects)]]
       ELSE [s EXCEPT !.loading = NotLoading,
                      !.hist.results = l.results,
                      !.log = [lines |-> 1, objects |-> Len(l.objects)]]


(***************************************************************************)
(*         AssetLevelEditor (version 2.2): the properties panel            *)
(***************************************************************************)

\* rows the properties list is given at most
MaxRows == 2

\* texts typed into a key input and into a value input
KeyTexts == {"", " hp "}
ValueTexts == {" 7 "}

\* String.prototype.trim, on the texts of the panel
Trim(text) ==
    CASE text = " hp " -> "hp"
      [] text = " 7 " -> "7"
      [] OTHER -> text

\* variant of Collect in which the first row of a key wins
Collect_firstWins(rows) ==
    { <<Trim(rows[i].key), Trim(rows[i].value)>> :
        i \in {i \in 1..Len(rows) :
                  /\ Trim(rows[i].key) # ""
                  /\ \A j \in 1..(i - 1) : Trim(rows[j].key) # Trim(rows[i].key)} }

\* the forEach of updateProperty over the rows: properties[key] = value for
\* every row whose trimmed key is not empty, a later row replacing an earlier
\* one of the same key.  A mapping is the set of its <<key, value>> pairs.
Collect(rows) ==
    { <<Trim(rows[i].key), Trim(rows[i].value)>> :
        i \in {i \in 1..Len(rows) :
                  /\ Trim(rows[i].key) # ""
                  /\ \A j \in (i + 1)..Len(rows) : Trim(rows[j].key) # Trim(rows[i].key)} }

\* userData.properties of the node a reference names is set; a node that has
\* left the scene is in no document any more
SetProperties(s, u, properties) ==
    [s EXCEPT !.scene = [k \in 1..Len(s.scene) |->
                            IF s.scene[k].uuid = u
                            THEN [s.scene[k] EXCEPT !.properties = properties]
                            ELSE s.scene[k]]]

\* with no valid row the member is deleted, which every reader takes as {}
updateProperty(s) ==
    IF s.selectedObject = NoUuid \/ s.stale THEN s
    ELSE SetProperties(s, s.selectedObject, Collect(s.propertiesList))

addProperty(s, key, value) ==
    IF s.selectedObject = NoUuid THEN s
    ELSE updateProperty([s EXCEPT !.propertiesList =
                            Append(@, [key |-> key, value |-> value,
                                       keyBy |-> s.selectedObject,
                                       valueBy |-> s.selectedObject,
                                       removing |-> FALSE])])

\* Object.entries(properties) of the mappings of this model, in the order
\* of their keys
PropertyKeys == <<"hp", " hp ">>

RECURSIVE Entries(_, _)
Entries(properties, i) ==
    IF i > Len(PropertyKeys) THEN <<>>
    ELSE LET key == PropertyKeys[i]
             values == {p[2] : p \in {q \in properties : q[1] = key}}
         IN (IF values = {} THEN <<>>
             ELSE <<[key |-> key, value |-> CHOOSE v \in values : TRUE]>>)
              \o Entries(properties, i + 1)

RECURSIVE AddEntries(_, _, _)
AddEntries(s, entries, i) ==
    IF i > Len(entries) THEN s
    ELSE AddEntries(IF Trim(entries[i].key) # ""
                    THEN addProperty(s, entries[i].key, entries[i].value)
                    ELSE s, entries, i + 1)

\* variant of loadObjectProperties that leaves the rows it finds in the list
loadObjectProperties_keepRows(s) ==
    IF s.selectedObject = NoUuid THEN s
    ELSE LET nodes == {k \in 1..Len(s.scene) : ~s.stale /\ s.scene[k].uuid = s.selectedObject}
             properties == IF nodes = {} THEN {}
                           ELSE s.scene[CHOOSE k \in nodes : TRUE].properties
         IN AddEntries(s, Entries(properties, 1), 1)

\* the rows are rebuilt from the mapping the selected node has when the
\* method starts
loadObjectProperties(s) ==
    IF s.selectedObject = NoUuid THEN s
    ELSE LET nodes == {k \in 1..Len(s.scene) : ~s.stale /\ s.scene[k].uuid = s.selectedObject}
             properties == IF nodes = {} THEN {}
                           ELSE s.scene[CHOOSE k \in nodes : TRUE].properties
         IN AddEntries([s EXCEPT !.propertiesList = <<>>], Entries(properties, 1), 1)

\* deselectObject and selectObject, as far as the panel goes
deselectObjectIO(s) ==
    IF s.selectedObject = NoUuid THEN s
    ELSE [updateProperty(s) EXCEPT !.selectedObject = NoUuid, !.stale = FALSE,
                                   !.propertiesList = <<>>]

\* u names a node of the scene
selectObjectIO(s, u) ==
    IF s.selectedObject = u /\ ~s.stale THEN s
    ELSE loadObjectProperties([deselectObjectIO(s) EXCEPT !.selectedObject = u])

\* deleteSelectedObject: the rows of the panel stay
deleteSelectedObjectIO(s) ==
    IF s.selectedObject = NoUuid THEN s
    ELSE [s EXCEPT !.selectedObject = NoUuid,
                   !.stale = FALSE,
                   !.scene = IF s.stale THEN @
                             ELSE SelectSeq(@, LAMBDA n : n.uuid # s.selectedObject)]

\* the change listener of a key input and of a value input, the text typed
\* being in the input, and the delete button of a row
keyChanged(s, r, text) ==
    updateProperty([s EXCEPT !.propertiesList[r].key = text,
                             !.propertiesList[r].keyBy = s.selectedObject])

valueChanged(s, r, text) ==
    updateProperty([s EXCEPT !.propertiesList[r].value = text,
                             !.propertiesList[r].valueBy = s.selectedObject])

\* the mousedown listener of a row's delete button: the removal is left to a
\* timer
rowMouseDown(s, r) == [s EXCEPT !.propertiesList[r].removing = TRUE]

\* the keydown listener of a value input, the key being Enter: a timer is set
\* unless the key of the row is blank
valueEnter(s, r) ==
    IF Trim(s.propertiesList[r].key) # "" THEN [s EXCEPT !.addTimer = TRUE] ELSE s

\* the timer of the Enter key runs: self.addProperty()
addTimerRuns(s) == addProperty([s EXCEPT !.addTimer = FALSE], "", "")

\* the timer of a delete button runs, the row still being in the list
rowDeleted(s, r) ==
    updateProperty([s EXCEPT !.propertiesList =
                      [k \in 1..(Len(s.propertiesList) - 1) |->
                          IF k < r THEN s.propertiesList[k] ELSE s.propertiesList[k + 1]]])

\* documents written by hand or by an earlier session, next to the download
door == "Assets/3D/Castle/door.glb"
barrel == "Assets/3D/Pirate/barrel.glb"

LegacyObjects ==
    << [file |-> door, position |-> Arr(<<1, 2, 3>>), rotation |-> Arr(<<0, 157, 0>>)],
       [file |-> barrel, position |-> Arr(<<1, 0, 3>>), rotation |-> Arr(<<0, 0, 0>>),
        scale |-> Arr(<<2, 2, 2>>), properties |-> {<<"hp", "5">>}] >>

\* a scene an earlier session of either class variant saved
SampleScene ==
    << setFromQuaternion([gltfScene EXCEPT !.position = ClickPoint, !.originalFile = door,
                                           !.scale = Doubled, !.uuid = Earlier + 1],
                         QuarterTurn.quaternion),
       [gltfScene EXCEPT !.position = ClickPoint, !.originalFile = barrel, !.uuid = Earlier + 2] >>

Handwritten ==
    { Garbage,
      JSONstringify([metadata |-> [objectCount |-> 0]]),
      JSONstringify([version |-> Str("1.0"), objects |-> LegacyObjects]),
      JSONstringify([objects |-> LegacyObjects]),
      JSONstringify([version |-> Num(1), objects |-> LegacyObjects]),
      JSONstringify([version |-> Str("2.2"), metadata |-> [objectCount |-> 1]]),
      Download("2.0", SampleScene),
      Download("2.2", SampleScene) }

Picks(s) == Handwritten \cup (IF s.download.written THEN {s.download.file} ELSE {})


(***************************************************************************)
(*            AssetLevelEditor scene documents: the actions                *)
(***************************************************************************)

\* The user leaves the scene alone while a load is on its way, and picks the
\* file saveScene has downloaded right after saving it or not at all: every
\* handler of the user starts with the download and the last load's outcome
\* put away.
BeginIO(s) ==
    [s EXCEPT !.hist = NoHistIO, !.alerted = FALSE, !.log = NoLog,
              !.download = NoDownload]

IOStep(s, op) ==
    /\ io' = [s EXCEPT !.op = op]
    /\ UNCHANGED <<page, editor, lastE, browser, input, lastB, calc>>

\* a click with a file armed, which starts a placement and deselects, and the
\* placement run to its end
PlaceIO(ok, file) ==
    /\ page = "documents"
    /\ ~io.loading.active
    /\ Len(io.scene) < MaxPlaced
    /\ io.generated < MaxUuids
    /\ IOStep([deselectObjectIO(BeginIO(io)) EXCEPT
                   !.scene = Append(@, Object3D(placed(ok, file), io)),
                   !.generated = @ + 1], "place")

\* the rotate gizmo turns an object a quarter turn about y, or back
RotateIO(i) ==
    /\ page = "documents"
    /\ ~io.loading.active
    /\ i \in 1..Len(io.scene)
    /\ LET q == IF io.scene[i].quaternion = Identity.quaternion
                THEN QuarterTurn.quaternion ELSE Identity.quaternion
       IN IOStep([BeginIO(io) EXCEPT !.scene[i] = setFromQuaternion(@, q)], "rotate")

\* the scale gizmo doubles an object, or halves a doubled one
ScaleIO(i) ==
    /\ page = "documents"
    /\ ~io.loading.active
    /\ i \in 1..Len(io.scene)
    /\ IOStep([BeginIO(io) EXCEPT !.scene[i].scale =
                   IF @ = UnitScale THEN Doubled ELSE UnitScale], "scale")

\* the object is selected and Delete is pressed
DeleteIO(i) ==
    /\ page = "documents"
    /\ ~io.loading.active
    /\ i \in 1..Len(io.scene)
    /\ IOStep(deleteSelectedObjectIO(selectObjectIO(BeginIO(io), io.scene[i].uuid)), "delete")

\* the save button
SaveSceneIO ==
    /\ page = "documents"
    /\ ~io.loading.active
    /\ IOStep([BeginIO(io) EXCEPT !.download =
                   [written |-> TRUE, file |-> Download(io.variant, io.scene)]],
              "save")

\* a file is picked in the load input
LoadSceneIO(file) ==
    /\ page = "documents"
    /\ ~io.loading.active
    /\ file \in Picks(io)
    /\ IOStep(loadScene([io EXCEPT !.download = NoDownload], file), "load")

LoadSettlesIO(i, ok) ==
    /\ page = "documents"
    /\ io.loading.active
    /\ i \in Pending(io.loading)
    /\ io.variant = "2.0" => \A j \in Pending(io.loading) : i <= j
    /\ io.generated < MaxUuids
    /\ IOStep(loadSettles(io, i, ok), "settle")

LoadEndIO ==
    /\ page = "documents"
    /\ io.loading.active
    /\ Pending(io.loading) = {}
    /\ IOStep(loadSceneEnd(io), "loaded")

NextIO ==
    \/ \E ok \in BOOLEAN, file \in Files : PlaceIO(ok, file)
    \/ \E i \in 1..MaxPlaced : RotateIO(i)
    \/ \E i \in 1..MaxPlaced : ScaleIO(i)
    \/ \E i \in 1..MaxPlaced : DeleteIO(i)
    \/ SaveSceneIO
    \/ \E file \in Picks(io) : LoadSceneIO(file)
    \/ \E i \in 1..MaxPlaced, ok \in BOOLEAN : LoadSettlesIO(i, ok)
    \/ LoadEndIO

InitIO ==
    /\ page = "documents"
    /\ editor = EditorInit
    /\ lastE = NoStepE
    /\ browser = BrowserInit
    /\ input = InputInit
    /\ lastB = NoStepB
    /\ io \in {IOInit("2.2"), IOInit("2.0")}
    /\ calc = NoCalc

SpecIO == InitIO /\ [][NextIO]_vars


(***************************************************************************)
(*     AssetLevelEditor (version 2.2) with its properties panel in use     *)
(***************************************************************************)

\* an object is clicked with no file armed
SelectIO(i) ==
    /\ page = "documents"
    /\ ~io.loading.active
    /\ i \in 1..Len(io.scene)
    /\ IOStep(selectObjectIO(BeginIO(io), io.scene[i].uuid), "select")

\* a click on nothing, or Escape
DeselectIO ==
    /\ page = "documents"
    /\ ~io.loading.active
    /\ IOStep(deselectObjectIO(BeginIO(io)), "deselect")

\* the add button of the panel
AddPropertyIO ==
    /\ page = "documents"
    /\ ~io.loading.active
    /\ Len(io.propertiesList) < MaxRows
    /\ IOStep(addProperty(BeginIO(io), "", ""), "addProperty")

KeyChangedIO(r, text) ==
    /\ page = "documents"
    /\ ~io.loading.active
    /\ r \in 1..Len(io.propertiesList)
    /\ IOStep(keyChanged(BeginIO(io), r, text), "edit")

ValueChangedIO(r, text) ==
    /\ page = "documents"
    /\ ~io.loading.active
    /\ r \in 1..Len(io.propertiesList)
    /\ IOStep(valueChanged(BeginIO(io), r, text), "edit")

RowDeletedIO(r) ==
    /\ page = "documents"
    /\ ~io.loading.active
    /\ r \in 1..Len(io.propertiesList)
    /\ IOStep(rowDeleted(BeginIO(io), r), "removeProperty")

\* the user places the door, uses the panel, saves, and loads what was saved
NextPanel ==
    \/ \E ok \in BOOLEAN : PlaceIO(ok, door)
    \/ \E i \in 1..MaxPlaced : DeleteIO(i)
    \/ \E i \in 1..MaxPlaced : SelectIO(i)
    \/ DeselectIO
    \/ AddPropertyIO
    \/ \E r \in 1..MaxRows, text \in KeyTexts : KeyChangedIO(r, text)
    \/ \E r \in 1..MaxRows, text \in ValueTexts : ValueChangedIO(r, text)
    \/ \E r \in 1..MaxRows : RowDeletedIO(r)
    \/ SaveSceneIO
    \/ io.download.written /\ LoadSceneIO(io.download.file)
    \/ \E i \in 1..MaxPlaced, ok \in BOOLEAN : LoadSettlesIO(i, ok)
    \/ LoadEndIO

InitPanel == InitIO /\ io.variant = "2.2"

SpecPanel == InitPanel /\ [][NextPanel]_vars

(***************************************************************************)
(*   AssetLevelEditor: a load started while others are still on their way  *)
(***************************************************************************)

\* placeModel calls that wait for their model at one time
MaxInFlight == 1

\* the current load and the earlier one change places
Swap(s) == [s EXCEPT !.loading = s.earlier, !.earlier = s.loading]

\* the document picked in this part: the one an earlier session saved
Saved(variant) == Download(variant, SampleScene)

\* a click with a file armed: placeModel starts its load, and the click
\* deselects.  Here the user clicks while no load is on its way.
PlaceBeginX(file) ==
    /\ page = "overlap"
    /\ ~io.loading.active /\ ~io.earlier.active
    /\ Len(io.placing) < MaxInFlight
    /\ IOStep([deselectObjectIO(BeginIO(io)) EXCEPT !.placing = Append(@, file)], "click")

\* the load of the first waiting placeModel settles, and the model or the
\* demo cube joins the scene
PlaceEndX(ok) ==
    /\ page = "overlap"
    /\ Len(io.placing) > 0
    /\ io.generated < MaxUuids
    /\ IOStep([io EXCEPT !.scene = Append(@, Object3D(placed(ok, io.placing[1]), io)),
                         !.generated = @ + 1,
                         !.placing = Tail(@)], "placed")

\* a file is picked in the load input, also while a load is on its way
LoadSceneX ==
    /\ page = "overlap"
    /\ ~io.earlier.active
    /\ IOStep(loadScene([io EXCEPT !.earlier = io.loading, !.loading = NotLoading],
                        Saved(io.variant)), "load")

SettlesX(i, ok) ==
    /\ page = "overlap"
    /\ io.loading.active
    /\ i \in Pending(io.loading)
    /\ io.variant = "2.0" => \A j \in Pending(io.loading) : i <= j
    /\ io.generated < MaxUuids
    /\ IOStep(loadSettles(io, i, ok), "settle")

EarlierSettlesX(i, ok) ==
    /\ page = "overlap"
    /\ io.earlier.active
    /\ i \in Pending(io.earlier)
    /\ io.variant = "2.0" => \A j \in Pending(io.earlier) : i <= j
    /\ io.generated < MaxUuids
    /\ IOStep(Swap(loadSettles(Swap(io), i, ok)), "settle")

LoadEndX ==
    /\ page = "overlap"
    /\ io.loading.active
    /\ Pending(io.loading) = {}
    /\ IOStep(loadSceneEnd(io), "loaded")

\* the earlier load ends; hist and log stay those of the load started last
EarlierEndX ==
    /\ page = "overlap"
    /\ io.earlier.active
    /\ Pending(io.earlier) = {}
    /\ IOStep([Swap(loadSceneEnd(Swap(io))) EXCEPT !.hist = io.hist, !.log = io.log],
              "loaded")

NextX ==
    \/ \E file \in Files : PlaceBeginX(file)
    \/ \E ok \in BOOLEAN : PlaceEndX(ok)
    \/ LoadSceneX
    \/ \E i \in 1..MaxPlaced, ok \in BOOLEAN : SettlesX(i, ok)
    \/ \E i \in 1..MaxPlaced, ok \in BOOLEAN : EarlierSettlesX(i, ok)
    \/ LoadEndX
    \/ EarlierEndX

InitX ==
    /\ page = "overlap"
    /\ editor = EditorInit
    /\ lastE = NoStepE
    /\ browser = BrowserInit
    /\ input = InputInit
    /\ lastB = NoStepB
    /\ io \in {IOInit("2.2"), IOInit("2.0")}
    /\ calc = NoCalc

SpecOverlap == InitX /\ [][NextX]_vars



(***************************************************************************)
(*           AssetBrowser.placeObject: the placement arithmetic            *)
(***************************************************************************)

\* components of the normals tried: whole numbers up to MaxNormal either way
\* (placeObject looks at their signs and compares their sizes only)
MaxNormal == 2

Vector3(x, y, z) == [x |-> x, y |-> y, z |-> z]

\* pickInfo.getNormal(true): any direction, never the zero vector
Normals ==
    { Vector3(x, y, z) : x \in -MaxNormal..MaxNormal, y \in -MaxNormal..MaxNormal,
                         z \in -MaxNormal..MaxNormal } \ {Vector3(0, 0, 0)}

\* Lengths of the placement arithmetic are hundredths of a unit.  The extent
\* of the leaf meshes' bounding boxes along one axis, as <<minimum, maximum>>;
\* the sums are even, so that the midpoint is a whole number of hundredths
Extents == {<<-50, 50>>, <<0, 100>>, <<-30, 10>>}

Boxes ==
    { [min |-> Vector3(ex[1], ey[1], ez[1]), max |-> Vector3(ex[2], ey[2], ez[2])] :
          ex \in Extents, ey \in Extents, ez \in Extents }

\* the dominant axis (0 = x, 1 = y, 2 = z) placeObject logs
dominantAxis(normal) ==
    LET absNormal == Vector3(Abs(normal.x), Abs(normal.y), Abs(normal.z))
    IN IF absNormal.y > absNormal.x /\ absNormal.y > absNormal.z THEN 1
       ELSE IF absNormal.z > absNormal.x /\ absNormal.z > absNormal.y THEN 2
       ELSE 0

\* normal.c > 0 ? min.c : (normal.c < 0 ? max.c : (min.c + max.c) / 2)
pivotCoordinate(c, lo, hi) ==
    IF c > 0 THEN lo ELSE IF c < 0 THEN hi ELSE (lo + hi) \div 2

pivotPoint(normal, min, max) ==
    LET pivotX == pivotCoordinate(normal.x, min.x, max.x)
        pivotY == pivotCoordinate(normal.y, min.y, max.y)
        pivotZ == pivotCoordinate(normal.z, min.z, max.z)
    IN Vector3(-pivotX, pivotY, pivotZ)

negate(v) == Vector3(-v.x, -v.y, -v.z)

\* const offset = pivotPoint.negate()
offset(normal, min, max) == negate(pivotPoint(normal, min, max))

\* variant of Round that drops the fraction
Round_truncate(v) == v \div 100

\* Math.round of a length in hundredths, in whole units: floor(x + 0.5)
Round(v) == (v + 50) \div 100

add(a, b) == Vector3(a.x + b.x, a.y + b.y, a.z + b.z)

\* normal.scale(0.1), in hundredths of a unit
sideOffset(normal) == Vector3(10 * normal.x, 10 * normal.y, 10 * normal.z)

\* position.add(offset).add(sideOffset), each coordinate through Math.round
finalPosition(position, off, side) ==
    LET sum == add(add(position, off), side)
    IN Vector3(Round(sum.x), Round(sum.y), Round(sum.z))

\* AssetLevelEditor.snapToGrid
snapToGrid(position) == Vector3(Round(position.x), Round(position.y), Round(position.z))

\* points a pick returns (hundredths of a unit): on the ground, above it, and
\* halfway between grid points
PickPoints ==
    { Vector3(260, 0, 260), Vector3(130, 20, -49), Vector3(250, -50, -150),
      Vector3(0, 0, 0) }

\* a click whose pick has a normal, on a model whose leaf meshes have a box
InitCalc ==
    /\ page = "arithmetic"
    /\ editor = EditorInit
    /\ lastE = NoStepE
    /\ browser = BrowserInit
    /\ input = InputInit
    /\ lastB = NoStepB
    /\ io = NoIO
    /\ calc \in {[op |-> "click", normal |-> n, min |-> b.min, max |-> b.max] :
                    n \in Normals, b \in Boxes}
               \cup {[op |-> "mousedown", point |-> p] : p \in PickPoints}

\* placeObject classifies the normal
ClassifyCalc ==
    /\ page = "arithmetic"
    /\ calc.op = "click"
    /\ calc' = [op |-> "classified", normal |-> calc.normal, min |-> calc.min,
                max |-> calc.max, dominantAxis |-> dominantAxis(calc.normal)]
    /\ UNCHANGED <<page, editor, lastE, browser, input, lastB, io>>

\* placeObject, the model loaded, computes the pivot and the offset
OffsetCalc ==
    /\ page = "arithmetic"
    /\ calc.op = "classified"
    /\ calc' = [op |-> "offset", normal |-> calc.normal, min |-> calc.min,
                max |-> calc.max, dominantAxis |-> calc.dominantAxis,
                offset |-> offset(calc.normal, calc.min, calc.max)]
    /\ UNCHANGED <<page, editor, lastE, browser, input, lastB, io>>

\* placeObject moves the root node to the final position; position is the
\* picked point the click handed over
PlaceCalc(position) ==
    /\ page = "arithmetic"
    /\ calc.op = "offset"
    /\ calc' = [op |-> "placed", normal |-> calc.normal, min |-> calc.min,
                max |-> calc.max, dominantAxis |-> calc.dominantAxis,
                offset |-> calc.offset, position |-> position,
                finalPosition |-> finalPosition(position, calc.offset,
                                                sideOffset(calc.normal))]
    /\ UNCHANGED <<page, editor, lastE, browser, input, lastB, io>>

\* AssetLevelEditor.onMouseClick snaps the intersection point it places at
SnapCalc ==
    /\ page = "arithmetic"
    /\ calc.op = "mousedown"
    /\ calc' = [op |-> "snapped", point |-> calc.point,
                snappedPosition |-> snapToGrid(calc.point)]
    /\ UNCHANGED <<page, editor, lastE, browser, input, lastB, io>>

NextCalc ==
    \/ ClassifyCalc
    \/ OffsetCalc
    \/ \E position \in PickPoints : PlaceCalc(position)
    \/ SnapCalc

SpecCalc == InitCalc /\ [][NextCalc]_vars

(***************************************************************************)
(*     AssetBrowser: the placedModels registry and its scene documents     *)
(***************************************************************************)

\* model roots and fallback boxes one session makes
MaxRoots == 2
MaxBoxes == 1

\* Lengths, angles and scale factors of this part are hundredths.
Hundredths(v) == Vector3(100 * v.x, 100 * v.y, 100 * v.z)

\* folders of the catalog and the file each one shows
Folders == {"Castle", "Pirate"}
FileOf(folderName) == IF folderName = "Castle" THEN "door.glb" ELSE "barrel.glb"

\* `Assets/3D/${folderName}/${fileName}`, as its parts between the slashes
FilePath(folderName, fileName) == <<"Assets", "3D", folderName, fileName>>

\* the normal the mock pick of loadScene returns, which a click on the water
\* plane has too
Up == Vector3(0, 1, 0)

\* the bounding box of the leaf meshes of a catalog model, whose origin is at
\* its centre
ModelBox == [min |-> Vector3(-50, -100, -50), max |-> Vector3(50, 100, 50)]

\* the point a placing click picks on the water plane
ClickPoints == { Vector3(260, 0, 100) }

One == Vector3(100, 100, 100)
Zero == Vector3(0, 0, 0)

\* value * 1.2
highlightScale(originalScale) ==
    Vector3((originalScale.x * 12) \div 10, (originalScale.y * 12) \div 10,
            (originalScale.z * 12) \div 10)

\* the key frames of popInAnimation
keyFrames ==
    << [frame |-> 0,  value |-> Vector3(10, 10, 10)],
       [frame |-> 5,  value |-> Vector3(120, 120, 120)],
       [frame |-> 10, value |-> One] >>

\* Vector3.asArray and Vector3.FromArray
asArray(v) == <<v.x, v.y, v.z>>
FromArray(a) == Vector3(a[1], a[2], a[3])

NotPlacing == [active |-> FALSE]

\* History kept for the properties (no handler reads it): models is the
\* document the last loadScene read, finished whether its loop has ended.
\* A root's `entry` is the place in that document it was placed for (0 for a
\* click's).
NoHistR == [models |-> <<>>, finished |-> FALSE]

\* roots are the root TransformNodes placeObject made, in the order made;
\* animation is the key frame popInAnimation shows next (past the last one
\* when it has ended), timer whether the 500 ms timer is still to fire.  boxes
\* are the fallback boxes.  An entry of placedModels names its mesh by kind
\* and place.  debugSpheres and containers count the live ones.
RegistryInit ==
    [ variant      |-> "1.0",
      roots        |-> <<>>,
      boxes        |-> <<>>,
      debugSpheres |-> 0,
      containers   |-> 0,
      placedModels |-> <<>>,
      selectedFile |-> NoFile,
      folderStack  |-> <<>>,
      placing      |-> NotPlacing,
      loading      |-> NotLoading,
      download     |-> NoDownload,
      alerted      |-> FALSE,
      hist         |-> NoHistR,
      op           |-> "init" ]

\* a folder button, then the file button of the folder (the object selection
\* selectFile and clearSelection clear changes materials only and is left to
\* the interaction part)
selectFileR(s, folderName) ==
    [s EXCEPT !.folderStack = <<folderName>>, !.selectedFile = FileOf(folderName)]

clearSelectionR(s) == [s EXCEPT !.selectedFile = NoFile]

trackModel(s, model) ==
    [s EXCEPT !.placedModels = Append(@, [mesh |-> model.mesh, path |-> model.path])]

\* placeObject up to its await of ImportMeshAsync.  pickInfo has a normal, or
\* has none where getNormal returns null: then Math.abs(normal.x) throws, and
\* the catch block, which assigns to the const useSidePlacement, throws in
\* turn, so that the call ends there with its promise rejected
placeObjectBegin(s, position, pickInfo, entry) ==
    IF s.selectedFile = NoFile THEN s
    ELSE IF ~Has(pickInfo, "normal") THEN s
    ELSE LET fileName == s.selectedFile
             folderName == s.folderStack[Len(s.folderStack)]
         IN [s EXCEPT !.debugSpheres = @ + 1,
                      !.containers = @ + 1,
                      !.placing = [active |-> TRUE, position |-> position,
                                   filePath |-> FilePath(folderName, fileName),
                                   entry |-> entry]]

\* placeObject from the settling of ImportMeshAsync to its end
placeObjectEnd(s, ok) ==
    LET position == s.placing.position
        t == [s EXCEPT !.placing = NotPlacing]
    IN IF ok
       THEN LET off == offset(Up, ModelBox.min, ModelBox.max)
                originalScale == One
                rootNode == [ position  |-> Hundredths(finalPosition(position, off, sideOffset(Up))),
                              rotation  |-> Zero,
                              scaling   |-> highlightScale(originalScale),
                              disposed  |-> FALSE,
                              animation |-> 1,
                              timer     |-> TRUE,
                              entry     |-> s.placing.entry ]
            IN trackModel([t EXCEPT !.roots = Append(@, rootNode)],
                          [mesh |-> [kind |-> "root", i |-> Len(s.roots) + 1],
                           path |-> s.placing.filePath])
       ELSE [t EXCEPT !.boxes = Append(@, [position |-> position, disposed |-> FALSE])]

\* the callback of setTimeout(..., 500) of root i
highlightTimer(s, i) ==
    [s EXCEPT !.roots[i].scaling = One, !.roots[i].timer = FALSE,
              !.debugSpheres = @ - 1]

\* the scene renders the next key frame of root i's popInAnimation
animate(s, i) ==
    [s EXCEPT !.roots[i].scaling = keyFrames[s.roots[i].animation].value,
              !.roots[i].animation = @ + 1]

\* mesh.dispose() of a placedModels entry (which stops the node's animations)
disposeMesh(s, mesh) ==
    IF mesh.kind = "root"
    THEN [s EXCEPT !.roots[mesh.i].disposed = TRUE,
                   !.roots[mesh.i].animation = Len(keyFrames) + 1]
    ELSE [s EXCEPT !.boxes[mesh.i].disposed = TRUE]

RECURSIVE DisposeFrom(_, _)
DisposeFrom(s, k) ==
    IF k > Len(s.placedModels) THEN s
    ELSE DisposeFrom(disposeMesh(s, s.placedModels[k].mesh), k + 1)

clearScene(s) == [DisposeFrom(s, 1) EXCEPT !.placedModels = <<>>]

\* the position, rotation or scaling of a tracked mesh
MeshOf(s, mesh) == IF mesh.kind = "root" THEN s.roots[mesh.i] ELSE s.boxes[mesh.i]

\* pathParts.pop() twice, joined as 'folder/filename.glb'
SavedPath(path) == <<path[Len(path) - 1], path[Len(path)]>>

saveSceneAB(s) ==
    [ models   |-> [k \in 1..Len(s.placedModels) |->
                      LET model == s.placedModels[k]
                          mesh == MeshOf(s, model.mesh)
                      IN [ path     |-> SavedPath(model.path),
                           position |-> asArray(mesh.position),
                           rotation |-> asArray(mesh.rotation),
                           scaling  |-> asArray(mesh.scaling) ]],
      metadata |-> [modelCount |-> Len(s.placedModels), format |-> "1.0"] ]

\* the head of loadScene's loop for entry i: the armed file and folder are
\* set and placeObject is called, or the loop ends and clearSelection runs
loadNext(s, i) ==
    IF i > Len(s.loading.models)
    THEN [clearSelectionR(s) EXCEPT !.loading = NotLoading, !.hist.finished = TRUE]
    ELSE LET modelData == s.loading.models[i]
             fileName == modelData.path[Len(modelData.path)]
             folderName == modelData.path[Len(modelData.path) - 1]
         IN placeObjectBegin([s EXCEPT !.folderStack = <<folderName>>,
                                       !.selectedFile = fileName,
                                       !.loading.i = i],
                             FromArray(modelData.position), [normal |-> Up], i)

\* input.onchange: from the picked file to the first placement it waits for
loadSceneAB(s, file) ==
    IF ~file.parses THEN [s EXCEPT !.alerted = TRUE]
    ELSE LET sceneData == file.value
         IN loadNext([clearScene(s) EXCEPT
                         !.loading = [active |-> TRUE, models |-> sceneData.models, i |-> 0],
                         !.hist = [models |-> sceneData.models, finished |-> FALSE]], 1)

\* loadScene after `await this.placeObject(...)`: the saved transformations go
\* to the last placed model, and the loop goes on
loadApplies(s) ==
    LET modelData == s.loading.models[s.loading.i]
        applied ==
            IF Len(s.placedModels) > 0
            THEN LET mesh == s.placedModels[Len(s.placedModels)].mesh
                 IN IF mesh.kind = "root"
                    THEN [s EXCEPT !.roots[mesh.i].position = FromArray(modelData.position),
                                   !.roots[mesh.i].rotation = FromArray(modelData.rotation),
                                   !.roots[mesh.i].scaling = FromArray(modelData.scaling)]
                    ELSE s
            ELSE s
    IN loadNext(applied, s.loading.i + 1)

\* a document written by hand, or by a session whose model was turned and
\* saved while it was still shown enlarged
DoorPath == <<"Castle", "door.glb">>
BarrelPath == <<"Pirate", "barrel.glb">>
HandwrittenAB ==
    { Garbage,
      JSONstringify([ models |-> << [ path |-> DoorPath, position |-> <<300, 100, 0>>,
                                      rotation |-> <<0, 157, 0>>, scaling |-> <<100, 100, 100>> ],
                                    [ path |-> BarrelPath, position |-> <<250, 0, 0>>,
                                      rotation |-> <<0, 0, 0>>, scaling |-> <<200, 200, 200>> ] >>,
                      metadata |-> [modelCount |-> 2, format |-> "1.0"] ]) }

PicksR(s) == HandwrittenAB \cup (IF s.download.written THEN {s.download.file} ELSE {})

\* The user waits for a placement or a load to end before the next click,
\* and picks the file saveScene has downloaded right after saving it or not at
\* all.
BeginR(s) == [s EXCEPT !.hist = NoHistR, !.alerted = FALSE, !.download = NoDownload]

StepR(s, op) ==
    /\ io' = [s EXCEPT !.op = op]
    /\ UNCHANGED <<page, editor, lastE, browser, input, lastB, calc>>

Quiet(s) == ~s.placing.active /\ ~s.loading.active

SelectFileR(folderName) ==
    /\ page = "registry"
    /\ Quiet(io)
    /\ StepR(selectFileR(BeginR(io), folderName), "selectFile")

\* what a placing click hands over as pickInfo: a pick of the water plane,
\* or of a mesh that has no normals
PickInfos == { [normal |-> Up], [mesh |-> "bare"] }

\* a placing click
PlaceObjectR(position, pickInfo) ==
    /\ page = "registry"
    /\ Quiet(io)
    /\ io.selectedFile # NoFile
    /\ StepR(placeObjectBegin(BeginR(io), position, pickInfo, 0),
             IF Has(pickInfo, "normal") THEN "placeObject" ELSE "placeObjectThrew")

\* ImportMeshAsync settles: placeObject runs to its end and, in a load, the
\* loop of loadScene goes on to its next await
ImportSettlesR(ok) ==
    /\ page = "registry"
    /\ io.placing.active
    /\ IF ok THEN Len(io.roots) < MaxRoots ELSE Len(io.boxes) < MaxBoxes
    /\ LET ended == placeObjectEnd(io, ok)
       IN StepR(IF io.loading.active THEN loadApplies(ended) ELSE ended,
                IF ok THEN "imported" ELSE "failed")

TimerR(i) ==
    /\ page = "registry"
    /\ i \in 1..Len(io.roots)
    /\ io.roots[i].timer
    /\ StepR(highlightTimer(io, i), "timer")

AnimateR(i) ==
    /\ page = "registry"
    /\ i \in 1..Len(io.roots)
    /\ io.roots[i].animation <= Len(keyFrames)
    /\ StepR(animate(io, i), "animate")

\* the selected model is turned a quarter turn about y by a drag, or back
RotateR(i) ==
    /\ page = "registry"
    /\ Quiet(io)
    /\ i \in 1..Len(io.roots)
    /\ ~io.roots[i].disposed
    /\ StepR([BeginR(io) EXCEPT !.roots[i].rotation.y = IF @ = 0 THEN 157 ELSE 0], "rotate")

SaveSceneR ==
    /\ page = "registry"
    /\ Quiet(io)
    /\ StepR([BeginR(io) EXCEPT !.download =
                 [written |-> TRUE, file |-> JSONstringify(saveSceneAB(io))]], "save")

LoadSceneR(file) ==
    /\ page = "registry"
    /\ Quiet(io)
    /\ file \in PicksR(io)
    /\ StepR(loadSceneAB(BeginR([io EXCEPT !.hist = NoHistR]), file), "load")

NextR ==
    \/ \E folderName \in Folders : SelectFileR(folderName)
    \/ \E position \in ClickPoints, pickInfo \in PickInfos : PlaceObjectR(position, pickInfo)
    \/ \E ok \in BOOLEAN : ImportSettlesR(ok)
    \/ \E i \in 1..MaxRoots : TimerR(i)
    \/ \E i \in 1..MaxRoots : AnimateR(i)
    \/ \E i \in 1..MaxRoots : RotateR(i)
    \/ SaveSceneR
    \/ \E file \in PicksR(io) : LoadSceneR(file)

InitR ==
    /\ page = "registry"
    /\ editor = EditorInit
    /\ lastE = NoStepE
    /\ browser = BrowserInit
    /\ input = InputInit
    /\ lastB = NoStepB
    /\ io = RegistryInit
    /\ calc = NoCalc

SpecRegistry == InitR /\ [][NextR]_vars

(***************************************************************************)
(*        AssetBrowser: folder navigation and the path of a placement      *)
(***************************************************************************)

\* folderStack[folderStack.length - 1], undefined in a template literal
TopFolder(folderStack) ==
    IF Len(folderStack) = 0 THEN "undefined" ELSE folderStack[Len(folderStack)]

\* Array.prototype.pop
Pop(stack) == IF Len(stack) = 0 THEN stack ELSE SubSeq(stack, 1, Len(stack) - 1)

\* files listed in a folder (two entries of each folderContents list)
FilesIn(folderName) ==
    IF folderName = "Castle" THEN {"door.glb", "gate.glb"}
    ELSE {"barrel.glb", "chest.glb"}

NoFolder == "none"

\* fileContainerVisible tells the file list from the folder list; listed is
\* the folder whose file buttons the file list holds.  chosenFrom (no handler
\* reads it) is the folder whose file button armed the file; filePath is the
\* path the last placeObject built.
CatalogInit ==
    [ variant              |-> "catalog",
      folderStack          |-> <<>>,
      fileContainerVisible |-> FALSE,
      listed               |-> NoFolder,
      selectedFile         |-> NoFile,
      chosenFrom           |-> NoFolder,
      filePath             |-> <<>>,
      op                   |-> "init" ]

\* loadFiles(folderName), the click of a folder button
loadFiles(s, folderName) ==
    [s EXCEPT !.folderStack = Append(@, folderName),
              !.fileContainerVisible = TRUE,
              !.listed = folderName]

\* the click of the Back button
backButton(s) ==
    [s EXCEPT !.folderStack = Pop(@), !.fileContainerVisible = FALSE]

\* the click of a file button
selectFileC(s, file) == [s EXCEPT !.selectedFile = file, !.chosenFrom = s.listed]

clearSelectionC(s) == [s EXCEPT !.selectedFile = NoFile, !.chosenFrom = NoFolder]

\* the path placeObject builds for the import
placeObjectPath(s) ==
    IF s.selectedFile = NoFile THEN s
    ELSE [s EXCEPT !.filePath = FilePath(TopFolder(s.folderStack), s.selectedFile)]

\* loadScene for a document of one entry: the folder and file of the entry
\* are stored for the placement, and clearSelection ends the load
loadEntryC(s, folderName, fileName) ==
    clearSelectionC(placeObjectPath([s EXCEPT !.folderStack = <<folderName>>,
                                              !.selectedFile = fileName,
                                              !.chosenFrom = folderName]))

StepC(s, op) ==
    /\ io' = [s EXCEPT !.op = op]
    /\ UNCHANGED <<page, editor, lastE, browser, input, lastB, calc>>

FolderButtonC(folderName) ==
    /\ page = "catalog"
    /\ ~io.fileContainerVisible
    /\ StepC(loadFiles(io, folderName), "loadFiles")

BackButtonC ==
    /\ page = "catalog"
    /\ io.fileContainerVisible
    /\ StepC(backButton(io), "back")

FileButtonC(file) ==
    /\ page = "catalog"
    /\ io.fileContainerVisible
    /\ file \in FilesIn(io.listed)
    /\ StepC(selectFileC(io, file), "selectFile")

RightClickC ==
    /\ page = "catalog"
    /\ StepC(clearSelectionC(io), "clearSelection")

\* a placing click
PlaceObjectC ==
    /\ page = "catalog"
    /\ io.selectedFile # NoFile
    /\ StepC(placeObjectPath(io), "placeObject")

LoadSceneC(folderName, fileName) ==
    /\ page = "catalog"
    /\ fileName \in FilesIn(folderName)
    /\ StepC(loadEntryC(io, folderName, fileName), "loadScene")

NextC ==
    \/ \E folderName \in Folders : FolderButtonC(folderName)
    \/ BackButtonC
    \/ \E file \in FilesIn("Castle") \cup FilesIn("Pirate") : FileButtonC(file)
    \/ RightClickC
    \/ PlaceObjectC
    \/ \E folderName \in Folders : \E fileName \in FilesIn(folderName) :
          LoadSceneC(folderName, fileName)

InitC ==
    /\ page = "catalog"
    /\ editor = EditorInit
    /\ lastE = NoStepE
    /\ browser = BrowserInit
    /\ input = InputInit
    /\ lastB = NoStepB
    /\ io = CatalogInit
    /\ calc = NoCalc

SpecCatalog == InitC /\ [][NextC]_vars


(***************************************************************************)
(*                            Properties                                   *)
(***************************************************************************)

\* C1 (as claimed): in every reachable state an armed file and a selected
\* object never coexist, in either editor.
C1_FileAndObjectExclusive ==
    /\ ~(editor.selectedFile # NoFile /\ editor.selectedObject # None)
    /\ ~(browser.selectedFile # NoFile /\ browser.selectedObject # None)

\* C2 (as claimed): when a handler has run deselectObject's restore pass on an
\* object (and has not selected it again), every material of that object has
\* the emissive colour it had when selectObject began to highlight it.
C2_EmissiveRestored ==
    (editor.hist.deselected # None /\ editor.selectedObject # editor.hist.deselected) =>
        editor.objects[editor.hist.deselected].emissive = editor.hist.before

\* C3: when an event has run clearObjectSelection on a selected object (and
\* has not selected it again), every child mesh of it carries the material it
\* had before the selection, the object has no entry in originalMaterials,
\* and nothing but highlight clones has ever been disposed.
C3_MaterialsRestored ==
    /\ (browser.hist.cleared # None /\ browser.selectedObject # browser.hist.cleared) =>
          /\ browser.nodes[browser.hist.cleared].material = browser.hist.was
          /\ browser.originalMaterials[browser.hist.cleared] = NoEntry
    /\ \A m \in ModelIds :
          browser.nodes[m].disposed \subseteq {CloneNames[i] : i \in 1..Len(CloneNames)}

\* C3 witness: a model whose two meshes share one material has been selected
\* and cleared again, and its highlight clones have been disposed.
C3_Witness ==
    /\ browser.hist.cleared # None
    /\ browser.selectedObject = None
    /\ browser.hist.was = <<NoMaterial, "m1", "m1">>
    /\ browser.nodes[browser.hist.cleared].disposed = {Clone(2), Clone(3)}

\* C4 (as claimed): camera input is suspended exactly while an object is
\* selected.
C4_CameraIffNothingSelected ==
    browser.cameraControlsEnabled <=> (browser.selectedObject = None)

\* C5 (as claimed): after a right click handled while no transform drag is in
\* progress, no file is armed and no object is selected.
C5_RightClickClearsAll ==
    /\ (lastE.op = "rightClick" /\ ~editor.dragging) =>
          (editor.selectedFile = NoFile /\ editor.selectedObject = None)
    /\ lastB.op = "rightUp" =>
          (browser.selectedFile = NoFile /\ browser.selectedObject = None)

\* C6 (as claimed): from every reachable state with no file armed, selectFile(A)
\* followed by selectFile(A) ends with no file armed, for every file A.
C6_RearmDisarms ==
    /\ (page = "editor" /\ editor.selectedFile = NoFile) =>
          \A f \in Files : selectFile(selectFile(editor, f), f).selectedFile = NoFile
    /\ (page = "browser" /\ browser.selectedFile = NoFile) =>
          \A f \in FileNames : selectFileB(selectFileB(browser, f), f).selectedFile = NoFile

\* no mesh of ALE object o wears the highlight
Unlit(o) ==
    \A i \in 1..Len(o.meshes) :
        ~o.isHighlighted[i] /\ o.emissive[o.meshes[i]] # Highlight

\* C7 (as claimed): with no file armed, the primary-click handler applied to a
\* hit on the selected object leaves no object selected and no mesh of that
\* object highlighted.
C7_ClickOnSelectedDeselects ==
    /\ (page = "editor" /\ editor.selectedFile = NoFile
           /\ editor.selectedObject # None /\ ~editor.dragging) =>
          LET x == editor.selectedObject
              after == onMouseClick(editor, 0, x)
          IN after.selectedObject = None /\ Unlit(after.objects[x])
    /\ (page = "browser" /\ browser.selectedFile = NoFile
           /\ browser.selectedObject # None) =>
          LET x == browser.selectedObject
              after == handleObjectSelection(browser, x)
          IN /\ after.selectedObject = None
             /\ after.nodes[x].material = browser.hist.before

\* a primary click has just started a placement of the armed file
PlacementStartedE ==
    /\ page = "editor"
    /\ lastE'.op = "leftClick"
    /\ Len(editor'.pending) = Len(editor.pending) + 1

PlacementStartedB ==
    /\ page = "browser"
    /\ lastB'.op \in {"leftDown", "leftUp"}
    /\ Len(browser'.pending) = Len(browser.pending) + 1

C9_RotatingNeedsSelection ==
    [][ /\ (~editor.isRotating /\ editor'.isRotating) => editor.selectedObject # None
        /\ (page = "editor" /\ editor.selectedObject = None) =>
              onKeyDown(editor, "r") = editor
        /\ (editor.isRotating /\ ~editor'.isRotating) =>
              editor'.selectedObject = editor.selectedObject
        /\ (~browser.isRotating /\ browser'.isRotating) => browser'.selectedObject # None
        /\ (page = "browser" /\ browser.selectedObject = None) =>
              \A x \in Xs : startRotation(browser, x) = browser
        /\ (browser.isRotating /\ ~browser'.isRotating /\ lastB'.op = "leftUp") =>
              browser'.selectedObject = browser.selectedObject ]_vars

\* a rotation drag is active on the selected object
RotationActive == browser.isRotating /\ browser.selectedObject # None

\* C10 (as claimed): while a rotation drag is active, a pointer move to x adds
\* (x - origin) * rotationSpeed to the yaw of the selected object and stores x
\* as the new origin, so that the yaw added since the drag began is
\* (origin - first x) * rotationSpeed; and this for the scene observer (origin
\* lastPointerX) as well as for InputHandler.handlePointerMove (origin lastX).
C10_IncrementalRotation ==
    /\ RotationActive =>
          /\ browser.hist.turned = (browser.lastPointerX - browser.hist.from) * RotationSpeed
          /\ \A x \in Xs :
                LET o == browser.selectedObject
                    viaObserver == observerMove(browser, x)
                    viaInput == handlePointerMove([b |-> browser, i |-> input], x)
                IN /\ browser.sceneClickObserver =>
                        /\ viaObserver.nodes[o].rotY =
                              browser.nodes[o].rotY + (x - browser.lastPointerX) * RotationSpeed
                        /\ viaObserver.lastPointerX = x
                   /\ viaInput.b.nodes[o].rotY =
                         browser.nodes[o].rotY + (x - input.lastX) * RotationSpeed
                   /\ viaInput.i.lastX = x


\* C11: Delete or Backspace with an object selected removes that object from
\* the scene, disposes the geometry of each of its meshes and every material
\* they refer to, and leaves no object selected; with nothing selected the
\* key changes nothing in the editor.
C11_DeleteRemovesAndDisposes ==
    [][ /\ (page = "editor" /\ \E key \in {"delete", "backspace"} : KeyDownE(key)) =>
            IF editor.selectedObject # None
            THEN /\ editor'.objects[editor.selectedObject].where = "free"
                 /\ editor.selectedObject \notin InScene(editor')
                 /\ editor'.selectedObject = None
                 /\ editor'.attached = None
                 /\ editor'.hist.deleted = editor.selectedObject
                 /\ editor'.hist.disposed.geometries =
                        1..Len(editor.objects[editor.selectedObject].meshes)
                 /\ \A i \in 1..Len(editor.objects[editor.selectedObject].meshes) :
                        editor.objects[editor.selectedObject].meshes[i]
                            \in editor'.hist.disposed.materials
                 /\ \A i \in ObjIds \ {editor.selectedObject} :
                        editor'.objects[i] = editor.objects[i]
            ELSE [editor' EXCEPT !.hist = editor.hist] = editor
      ]_vars

\* C11: a model with two meshes and two materials was selected and has just
\* been deleted
C11_Witness ==
    /\ page = "editor"
    /\ lastE.op = "keyDown"
    /\ editor.hist.deleted # None
    /\ editor.hist.had = <<1, 2>>
    /\ editor.hist.disposed = [geometries |-> {1, 2}, materials |-> {1, 2}]
    /\ editor.objects[editor.hist.deleted].where = "free"
    /\ editor.selectedObject = None


\* a load has ended that read a document this class's saveScene had written
LoadedOwnDocument ==
    /\ page = "documents"
    /\ io.op = "loaded"
    /\ Has(io.hist.picked, "of")
    /\ io.hist.picked.value.version = Str(io.variant)

\* no model load of the load that has ended was rejected
AllAssetsLoaded == \A i \in 1..Len(io.hist.results) : io.hist.results[i].state # "cube"

SameInstance(a, b) ==
    /\ a.originalFile = b.originalFile
    /\ a.position = b.position
    /\ a.rotation = b.rotation
    /\ a.quaternion = b.quaternion
    /\ a.scale = b.scale

\* C12: saving the scene and loading the saved document, every asset loading,
\* gives the scene as many placed objects as were saved, each with the source
\* path, position, rotation and scale of the object saved in its place.
C12_RoundTrip ==
    (LoadedOwnDocument /\ AllAssetsLoaded) =>
        /\ Len(io.scene) = Len(io.hist.picked.of)
        /\ \A i \in 1..Len(io.scene) : SameInstance(io.scene[i], io.hist.picked.of[i])

\* the same for scenes that hold loaded models only, no demo cube
C12_RoundTripOfModels ==
    (/\ LoadedOwnDocument /\ AllAssetsLoaded
     /\ \A i \in 1..Len(io.hist.picked.of) : io.hist.picked.of[i].kind = "model") =>
        /\ Len(io.scene) = Len(io.hist.picked.of)
        /\ \A i \in 1..Len(io.scene) : SameInstance(io.scene[i], io.hist.picked.of[i])


\* a load has ended that read a document either class's saveScene had
\* written from a scene of loaded models
LoadedSavedModels ==
    /\ page = "documents"
    /\ io.op = "loaded"
    /\ Has(io.hist.picked, "of")
    /\ \A i \in 1..Len(io.hist.picked.of) : io.hist.picked.of[i].kind = "model"

\* C13: loadScene (of the version 2.2 class) takes a document whose objects
\* carry rotationQuaternion, written by the version 2.0 saveScene, as well as
\* one whose objects carry Euler rotation, written by the version 2.2
\* saveScene, and every object of either comes back with the orientation it
\* was saved with.
C13_EitherRepresentation ==
    (LoadedSavedModels /\ AllAssetsLoaded /\ io.variant = "2.2") =>
        /\ Len(io.scene) = Len(io.hist.picked.of)
        /\ \A i \in 1..Len(io.scene) :
              io.scene[i].quaternion = io.hist.picked.of[i].quaternion


\* the file names no current version: none at all, a number, or a string
\* that does not begin with "2."
NoCurrentVersion(file) ==
    /\ file.parses
    /\ Has(file.value, "objects")
    /\ \/ ~Has(file.value, "version")
       \/ Has(file.value.version, "number")
       \/ Has(file.value.version, "string") /\ ~StartsWith2(file.value.version.string)

\* every model the ended load built from an entry has the entry's array
\* position and rotation and no properties
ReadAsLegacy ==
    \A i \in 1..Len(io.hist.results) :
        io.hist.results[i].state = "model" =>
            /\ io.hist.results[i].node.position = io.hist.picked.value.objects[i].position.array
            /\ io.hist.results[i].node.rotation = io.hist.picked.value.objects[i].rotation.array
            /\ io.hist.results[i].node.properties = {}
            /\ io.hist.results[i].node \in {io.scene[j] : j \in 1..Len(io.scene)}

\* C14: a document whose version is absent or is not a current one is loaded
\* as the legacy format and loadScene does not throw on it: each object is
\* read with its array position and rotation, the instance has exactly the
\* array position and an empty properties mapping.
C14_LegacyLoads ==
    (page = "documents" /\ io.variant = "2.2" /\ NoCurrentVersion(io.hist.picked)) =>
        /\ ~io.alerted
        /\ io.op = "load" => io.loading.active
        /\ io.op = "loaded" => ReadAsLegacy

\* the same for the documents whose version is absent or a string
C14_LegacyLoadsStringVersion ==
    (/\ page = "documents" /\ io.variant = "2.2" /\ NoCurrentVersion(io.hist.picked)
     /\ ~(Has(io.hist.picked.value, "version") /\ Has(io.hist.picked.value.version, "number"))) =>
        /\ ~io.alerted
        /\ io.op = "load" => io.loading.active
        /\ io.op = "loaded" => ReadAsLegacy


\* the file is no scene document: text JSON.parse throws on, or a value
\* without the list of objects
NotASceneDocument(file) == ~file.parses \/ ~Has(file.value, "objects")

\* C15: when the file picked is not a valid scene document, loadScene reports
\* the failure and the placed objects that were in the scene before the load
\* are all still there, unchanged.
C15_InvalidDocumentLeavesScene ==
    (/\ page = "documents" /\ io.op = "load" /\ NotASceneDocument(io.hist.picked)
     /\ io.hist.before # <<>>) =>
        /\ io.scene = io.hist.before
        /\ io.alerted

\* C15, the unparseable file alone
C15_UnparseableLeavesScene ==
    (page = "documents" /\ io.op = "load" /\ ~io.hist.picked.parses) =>
        /\ io.scene = io.hist.before
        /\ io.alerted
        /\ ~io.loading.active


\* C16: in a batch load an entry whose asset fails to load neither blocks nor
\* aborts the others: when the load of a saved document has ended, every
\* entry whose asset loaded is an instance with the transform saved for it,
\* and every entry whose asset failed is exactly one placeholder box at the
\* position saved for it.
C16_FailureDoesNotAbortBatch ==
    (LoadedOwnDocument /\ LoadedSavedModels) =>
        /\ Len(io.hist.results) = Len(io.hist.picked.of)
        /\ Len(io.scene) = Len(io.hist.picked.of)
        /\ \A i \in 1..Len(io.hist.picked.of) :
              IF io.hist.results[i].state = "cube"
              THEN /\ io.scene[i].kind = "cube"
                   /\ io.scene[i].position = io.hist.picked.of[i].position
              ELSE /\ io.hist.results[i].state = "model"
                   /\ io.scene[i].kind = "model"
                   /\ SameInstance(io.scene[i], io.hist.picked.of[i])

\* C16: a load of two saved models has ended whose first asset failed; the
\* second had been turned and doubled
C16_Witness ==
    /\ LoadedOwnDocument /\ LoadedSavedModels
    /\ Len(io.hist.picked.of) = 2
    /\ io.hist.results[1].state = "cube"
    /\ io.hist.results[2].state = "model"
    /\ io.hist.picked.of[2].quaternion = QuarterTurn.quaternion
    /\ io.hist.picked.of[2].scale = Doubled
    /\ io.scene[1].kind = "cube"
    /\ io.scene[2].kind = "model"


\* entries of the ended load whose asset loaded, and whose asset failed
Succeeded == {i \in 1..Len(io.hist.results) : io.hist.results[i].state = "model"}
Failed == {i \in 1..Len(io.hist.results) : io.hist.results[i].state = "cube"}

\* the failures the log lines of the load speak of: none where no line has a
\* count of them
FailedReported == IF Has(io.log, "failed") THEN io.log.failed ELSE 0

\* C17: the summary at the end of a batch load tells successes from failures:
\* the count of loaded objects it reports is the number of entries whose
\* asset loaded, the count of failures the number of entries replaced by a
\* placeholder.
C17_SummaryCounts ==
    (page = "documents" /\ io.op = "loaded" /\ io.variant = "2.2") =>
        /\ io.log.loaded = Cardinality(Succeeded)
        /\ FailedReported = Cardinality(Failed)


\* the nodes placeObject calls have put into the Babylon scene and not taken
\* out again: model roots, fallback boxes, debug spheres
PlacedNodesB(b) ==
    Cardinality({m \in ModelIds : b.nodes[m].where # "free"}) + b.fallbacks + b.debugSpheres

\* C18: every placement made with a file armed ends with exactly one new node
\* in the scene, the loaded model or, when the load fails, a fallback box: in
\* AssetLevelEditor the step that ends a placement adds one node, in
\* AssetBrowser the step that ends it replaces the debug sphere the
\* placement began with by one node.
C18_OneNodePerPlacement ==
    [][ /\ (/\ page = "editor"
            /\ lastE'.op \in {"loaded", "loadFailed"}
            /\ Len(editor'.pending) < Len(editor.pending)) =>
               Cardinality(InScene(editor')) = Cardinality(InScene(editor)) + 1
        /\ (/\ page = "browser"
            /\ lastB'.op \in {"imported", "importFailed"}
            /\ Len(browser'.pending) < Len(browser.pending)) =>
               PlacedNodesB(browser') = PlacedNodesB(browser)
      ]_vars

\* C18, AssetLevelEditor alone
C18_OneNodePerPlacementE ==
    [][ (/\ page = "editor"
         /\ lastE'.op \in {"loaded", "loadFailed"}
         /\ Len(editor'.pending) < Len(editor.pending)) =>
            Cardinality(InScene(editor')) = Cardinality(InScene(editor)) + 1
      ]_vars


\* the pivot of the rule: on each axis the box minimum where the normal's
\* component is positive, the maximum where it is negative, else the midpoint
RulePivot ==
    Vector3(IF calc.normal.x > 0 THEN calc.min.x
            ELSE IF calc.normal.x < 0 THEN calc.max.x
            ELSE (calc.min.x + calc.max.x) \div 2,
            IF calc.normal.y > 0 THEN calc.min.y
            ELSE IF calc.normal.y < 0 THEN calc.max.y
            ELSE (calc.min.y + calc.max.y) \div 2,
            IF calc.normal.z > 0 THEN calc.min.z
            ELSE IF calc.normal.z < 0 THEN calc.max.z
            ELSE (calc.min.z + calc.max.z) \div 2)

\* C19: for every normal and bounding box the offset placeObject applies is
\* the negated pivot on all three axes, the pivot being on each axis the box
\* minimum where the normal's component is positive, the maximum where it is
\* negative and the midpoint where it is zero.
C19_OffsetIsNegatedPivot ==
    (page = "arithmetic" /\ calc.op = "offset") =>
        /\ calc.offset.x = -RulePivot.x
        /\ calc.offset.y = -RulePivot.y
        /\ calc.offset.z = -RulePivot.z

\* C19 on the y and z axes alone
C19_OffsetIsNegatedPivotYZ ==
    (page = "arithmetic" /\ calc.op = "offset") =>
        /\ calc.offset.y = -RulePivot.y
        /\ calc.offset.z = -RulePivot.z

\* the sizes of the components of the normal just classified
Size(axis) ==
    CASE axis = 0 -> Abs(calc.normal.x)
      [] axis = 1 -> Abs(calc.normal.y)
      [] axis = 2 -> Abs(calc.normal.z)

\* among the greatest components the one preferred: y, then z, then x
Preferred ==
    LET top == {a \in 0..2 : \A b \in 0..2 : Size(a) >= Size(b)}
    IN IF 1 \in top THEN 1 ELSE IF 2 \in top THEN 2 ELSE 0

\* C20: the dominant axis of a normal is the axis whose component is greatest
\* in absolute value, and where two or three tie for greatest it is y before
\* z before x.
C20_DominantAxis ==
    (page = "arithmetic" /\ calc.op \in {"classified", "offset"}) =>
        calc.dominantAxis = Preferred

\* C20 for the normals with one component strictly greatest
C20_DominantAxisNoTie ==
    (/\ page = "arithmetic" /\ calc.op \in {"classified", "offset"}
     /\ \E a \in 0..2 : \A b \in 0..2 \ {a} : Size(a) > Size(b)) =>
        calc.dominantAxis = Preferred


\* each coordinate of whole-unit vector w is a nearest integer to the
\* coordinate of v (hundredths): no further from it than half a unit
NearestInteger(w, v) ==
    /\ 2 * Abs(100 * w.x - v.x) <= 100
    /\ 2 * Abs(100 * w.y - v.y) <= 100
    /\ 2 * Abs(100 * w.z - v.z) <= 100

\* the box of the scenario: min (-0.5, 0, -0.5), max (0.5, 1, 0.5)
ScenarioBox == calc.min = Vector3(-50, 0, -50) /\ calc.max = Vector3(50, 100, 50)

\* C21: the final position of a newly placed instance is, on each coordinate,
\* the nearest integer to pick point + offset + 0.1 * normal (the offset being
\* the one placeObject has applied), so every coordinate is a whole number;
\* a ground click at (2.6, 0, 2.6) with the up normal and the box
\* min (-0.5, 0, -0.5) max (0.5, 1, 0.5) gives (3, 0, 3); snapToGrid gives the
\* nearest integers of the point alone, and (1, 0, 0) for (1.3, 0.2, -0.49).
C21_FinalPositionRounded ==
    /\ (page = "arithmetic" /\ calc.op = "placed") =>
          /\ NearestInteger(calc.finalPosition,
                            add(add(calc.position, calc.offset),
                                Vector3(10 * calc.normal.x, 10 * calc.normal.y,
                                        10 * calc.normal.z)))
          /\ (/\ calc.position = Vector3(260, 0, 260)
              /\ calc.normal = Vector3(0, 1, 0)
              /\ ScenarioBox) => calc.finalPosition = Vector3(3, 0, 3)
    /\ (page = "arithmetic" /\ calc.op = "snapped") =>
          /\ NearestInteger(calc.snappedPosition, calc.point)
          /\ calc.point = Vector3(130, 20, -49) => calc.snappedPosition = Vector3(1, 0, 0)

\* C21: the ground click of the scenario has been placed, at (3, 0, 3)
C21_Witness ==
    /\ page = "arithmetic"
    /\ calc.op = "placed"
    /\ calc.position = Vector3(260, 0, 260)
    /\ calc.normal = Vector3(0, 1, 0)
    /\ ScenarioBox
    /\ calc.offset = Vector3(0, 0, 0)
    /\ calc.finalPosition = Vector3(3, 0, 3)



\* entries of the document of the load that has ended which carry a uuid and
\* from which the load has reconstructed a model
Reconstructed ==
    {j \in 1..Len(io.hist.results) :
        /\ io.hist.results[j].state = "model"
        /\ Has(io.hist.picked.value.objects[j], "uuid")}

\* the place in the scene of the model reconstructed from entry j
PlaceOf(j) == CHOOSE k \in 1..Len(io.scene) : io.scene[k] = io.hist.results[j].node

\* saveScene runs next after a load of the version 2.2 class has ended
SaveAfterLoad ==
    /\ page = "documents"
    /\ io.variant = "2.2"
    /\ io.op = "loaded"
    /\ SaveSceneIO

SelectedNodes ==
    {k \in 1..Len(io.scene) : ~io.stale /\ io.scene[k].uuid = io.selectedObject}

\* the pairs the rows of the panel stand for: for every key that is not
\* blank, the value of the last row that has it, both without the blanks
\* around them
RowPairs ==
    LET rows == io.propertiesList
        last(k) == CHOOSE i \in 1..Len(rows) :
                      /\ Trim(rows[i].key) = k
                      /\ \A j \in 1..Len(rows) : Trim(rows[j].key) = k => j <= i
    IN { <<k, Trim(rows[last(k)].value)>> :
            k \in {Trim(rows[i].key) : i \in 1..Len(rows)} \ {""} }

\* C23: the properties mapping of each instance round-trips: what the panel
\* commits to the selected instance is the pairs its rows stand for,
\* saveScene writes for every instance exactly the pairs the instance holds,
\* loadScene gives every instance it reconstructs from the saved document the
\* mapping of its entry, and an instance without properties is saved and
\* reloaded with the empty mapping.
C23_PropertiesRoundTrip ==
    (page = "documents" /\ io.variant = "2.2") =>
        /\ io.op \in {"select", "addProperty", "edit", "removeProperty"} =>
              \A k \in SelectedNodes : io.scene[k].properties = RowPairs
        /\ io.op = "save" =>
              /\ Len(io.download.file.value.objects) = Len(io.scene)
              /\ \A i \in 1..Len(io.scene) :
                    io.download.file.value.objects[i].properties = io.scene[i].properties
        /\ LoadedOwnDocument =>
              \A j \in 1..Len(io.hist.results) :
                  io.hist.results[j].state = "model" =>
                      /\ io.hist.picked.value.objects[j].properties
                            = io.hist.picked.of[j].properties
                      /\ io.hist.results[j].node.properties
                            = io.hist.picked.of[j].properties
                      /\ \E k \in 1..Len(io.scene) :
                            /\ io.scene[k].uuid = io.hist.results[j].node.uuid
                            /\ io.scene[k].properties = io.hist.picked.of[j].properties

\* C23: a scene of two models, the first given hp = 7 through the panel and
\* the second nothing, was saved and has been loaded again
C23_Witness ==
    /\ LoadedOwnDocument
    /\ Len(io.hist.picked.of) = 2
    /\ io.hist.picked.of[1].properties = {<<"hp", "7">>}
    /\ io.hist.picked.of[2].properties = {}
    /\ Len(io.scene) = 2
    /\ io.scene[1].kind = "model" /\ io.scene[1].properties = {<<"hp", "7">>}
    /\ io.scene[2].kind = "model" /\ io.scene[2].properties = {}

\* the live roots the last loadScene placed
LoadedRoots == { i \in 1..Len(io.roots) : ~io.roots[i].disposed /\ io.roots[i].entry > 0 }

\* every deferred effect of the placements has run
DeferredRun ==
    \A i \in 1..Len(io.roots) :
        ~io.roots[i].disposed =>
            ~io.roots[i].timer /\ io.roots[i].animation > Len(keyFrames)

\* loadScene has finished and every entry of its document was imported
LoadedEveryEntry ==
    /\ page = "registry"
    /\ io.hist.finished
    /\ \A j \in 1..Len(io.hist.models) : \E i \in LoadedRoots : io.roots[i].entry = j

\* root i has the position and rotation of its document entry
PlacedAsSaved(i) ==
    LET modelData == io.hist.models[io.roots[i].entry]
    IN /\ io.roots[i].position = FromArray(modelData.position)
       /\ io.roots[i].rotation = FromArray(modelData.rotation)

\* C24: once loadScene has finished and the pop-in animation and the 500 ms
\* timer of every placement have run, each loaded instance has the position,
\* rotation and scaling saved in its document entry
C24_LoadedTransformsAuthoritative ==
    (LoadedEveryEntry /\ DeferredRun) =>
        \A i \in LoadedRoots :
            /\ PlacedAsSaved(i)
            /\ io.roots[i].scaling = FromArray(io.hist.models[io.roots[i].entry].scaling)

\* C24, what the code keeps: position and rotation are the saved ones, and the
\* scaling is back at 1
C24_ScalingReset ==
    (LoadedEveryEntry /\ DeferredRun) =>
        \A i \in LoadedRoots : PlacedAsSaved(i) /\ io.roots[i].scaling = One

\* the meshes the registry names
Tracked == { io.placedModels[k].mesh : k \in 1..Len(io.placedModels) }

\* C27: every entry of placedModels refers to a live node, and every live
\* model root and every live fallback box has an entry in placedModels
C27_RegistryAgreesWithScene ==
    page = "registry" =>
        /\ \A mesh \in Tracked : ~MeshOf(io, mesh).disposed
        /\ \A i \in 1..Len(io.roots) :
              ~io.roots[i].disposed => [kind |-> "root", i |-> i] \in Tracked
        /\ \A i \in 1..Len(io.boxes) :
              ~io.boxes[i].disposed => [kind |-> "box", i |-> i] \in Tracked

\* C27, the half that holds: the entries refer to live nodes and every live
\* model root has one
C27_RootsTracked ==
    page = "registry" =>
        /\ \A mesh \in Tracked : ~MeshOf(io, mesh).disposed
        /\ \A i \in 1..Len(io.roots) :
              ~io.roots[i].disposed => [kind |-> "root", i |-> i] \in Tracked

\* C29: in a load, the step in which the placement of an entry fails leaves
\* the position, rotation and scaling of every model root as they were
C29_FailedEntryLeavesOthers ==
    [][ (page = "registry" /\ io.loading.active /\ io.placing.active
            /\ Len(io'.boxes) > Len(io.boxes)) =>
           \A i \in 1..Len(io.roots) :
               /\ io'.roots[i].position = io.roots[i].position
               /\ io'.roots[i].rotation = io.roots[i].rotation
               /\ io'.roots[i].scaling = io.roots[i].scaling ]_vars

\* C25: the model a finished load adds carries, as its source path, the file
\* that was armed when its placing click started the load
C25_SourcePathIsClickedFile ==
    [][ (page = "editor" /\ lastE'.op = "loaded") =>
           \E k \in 1..Len(editor.pending) :
               /\ Len(editor'.pending) = Len(editor.pending) - 1
               /\ \A i \in 1..Len(editor'.pending) :
                     editor'.pending[i] = editor.pending[IF i < k THEN i ELSE i + 1]
               /\ editor'.objects[NextId(editor)].originalFile = editor.pending[k].path ]_vars

\* the nodes the load started last has made so far
LatestNodes ==
    LET results == IF io.loading.active THEN io.loading.results ELSE io.hist.results
    IN { results[j].node : j \in { i \in 1..Len(results) : results[i].state \in {"model", "cube"} } }

\* C26: when a loadScene call finishes, every placed object of the scene is an
\* instance of the document whose load was started last
C26_OnlyLatestDocument ==
    (page = "overlap" /\ io.op = "loaded") =>
        \A k \in 1..Len(io.scene) : io.scene[k] \in LatestNodes

\* C26, without overlap: a load that no placement and no other load
\* overlapped ends with the instances of its document only
C26_OnlyLatestDocumentAlone ==
    (page = "documents" /\ io.op = "loaded") =>
        \A k \in 1..Len(io.scene) : io.scene[k] \in LatestNodes

\* C28: in the three.js editor a left click with no file armed that hits
\* nothing, or hits the axes helper, leaves no object selected
C28_NoSelectionOffObjects ==
    [][ (/\ page = "editor"
         /\ lastE'.op = "leftClick"
         /\ editor.selectedFile = NoFile
         /\ ~editor.dragging
         /\ \E hit \in (InScene(editor) \cap {AxesId}) \cup {None} :
               editor' = onMouseClick(Begin(editor), 0, hit))
           => editor'.selectedObject = None ]_vars

\* C28, the part that holds there: such a click that hits nothing leaves no
\* object selected
C28_NoSelectionOnMiss ==
    [][ (/\ page = "editor"
         /\ lastE'.op = "leftClick"
         /\ editor.selectedFile = NoFile
         /\ ~editor.dragging
         /\ editor' = onMouseClick(Begin(editor), 0, None))
           => editor'.selectedObject = None ]_vars

\* C28, the part that holds in the Babylon editor: with no file armed, a click
\* (press, release, pick) on the water plane leaves no object selected
C28_WaterLeavesNoSelectionB ==
    (page = "browser" /\ browser.selectedFile = NoFile /\ lastB.held = "none") =>
        LET down == handlePointerDown([b |-> browser, i |-> input], 0, 0, WaterId)
            up == handlePointerUp(down, 0, 0, WaterId, TRUE)
        IN /\ up.b.selectedObject = None
           /\ observerPick(up.b, WaterId).selectedObject = None

\* the placed models a pick can hit that are not the selected object
Unselected == { m \in ModelIds : browser.nodes[m].where = "scene" /\ browser.selectedObject # m }

\* every child mesh of model m that has a material wears its highlight clone
Highlighted(b, m, before) ==
    \A i \in 1..Len(before) : before[i] # NoMaterial => b.nodes[m].material[i] = Clone(i)

\* C30: with no file armed, a pointer-down and a quick pointer-up at the same
\* point on an unselected object leave the object selected and highlighted once
\* handlePointerDown and handlePointerUp have run
C30_ClickSelectsObject ==
    (page = "browser" /\ browser.selectedFile = NoFile /\ lastB.held = "none") =>
        \A m \in Unselected :
            LET down == handlePointerDown([b |-> browser, i |-> input], 0, 0, m)
                up == handlePointerUp(down, 0, 0, m, TRUE)
            IN /\ up.b.selectedObject = m
               /\ Highlighted(up.b, m, browser.nodes[m].material)

\* C30, what the handlers do: the pointer-down selects and highlights the
\* object, and the pointer-up, which runs handleObjectSelection on the same
\* pick, deselects it and puts its materials back
C30_PressSelectsReleaseDeselects ==
    (page = "browser" /\ browser.selectedFile = NoFile /\ lastB.held = "none") =>
        \A m \in Unselected :
            LET down == handlePointerDown([b |-> browser, i |-> input], 0, 0, m)
                up == handlePointerUp(down, 0, 0, m, TRUE)
            IN /\ down.b.selectedObject = m
               /\ Highlighted(down.b, m, browser.nodes[m].material)
               /\ up.b.selectedObject = None
               /\ up.b.nodes[m].material = browser.nodes[m].material

\* the Babylon editor after one primary click at a point where the pick
\* returns hit: the press and the quick release, each through the InputHandler
\* listener and the scene pointer observer, the release reported as a pick
AfterClick(hit) ==
    LET down == handlePointerDown([b |-> browser, i |-> input], 0, 0, hit)
        pressed == observerDown(down.b, 0, 0)
        up == handlePointerUp([b |-> pressed, i |-> down.i], 0, 0, hit, TRUE)
    IN observerUp(observerPick(up.b, hit))

\* C31: one primary click on a pickable surface while a file is armed starts
\* exactly one placement: across the InputHandler handlers and the observer
\* selectFile installed, one import is started
C31_OnePlacementPerClick ==
    (page = "browser" /\ browser.selectedFile # NoFile /\ lastB.held = "none") =>
        \A hit \in HitsB(browser) \ {None} :
            Len(AfterClick(hit).pending) = Len(browser.pending) + 1

\* C31, what the handlers do: handlePointerDown starts one placement and the
\* observer's pick starts a second
C31_TwoPlacementsPerClick ==
    (page = "browser" /\ browser.selectedFile # NoFile /\ lastB.held = "none") =>
        \A hit \in HitsB(browser) \ {None} :
            /\ browser.sceneClickObserver
            /\ Len(handlePointerDown([b |-> browser, i |-> input], 0, 0, hit).b.pending)
                  = Len(browser.pending) + 1
            /\ Len(AfterClick(hit).pending) = Len(browser.pending) + 2

\* C32: a placing click whose normal cannot be computed still goes on to the
\* import of the armed file, for the clicked position
C32_NormalFailureDoesNotAbort ==
    [][ (page = "registry" /\ io'.op = "placeObjectThrew") =>
           /\ io'.placing.active
           /\ io'.placing.position \in ClickPoints ]_vars

\* C32, what the code does: such a click leaves the scene as it was, with no
\* import started, no debug sphere and no fallback box
C32_NormalFailureAborts ==
    [][ (page = "registry" /\ io'.op = "placeObjectThrew") =>
           /\ ~io'.placing.active
           /\ io'.roots = io.roots /\ io'.boxes = io.boxes
           /\ io'.debugSpheres = io.debugSpheres
           /\ io'.placedModels = io.placedModels ]_vars

\* The timers and the animation frames of the page do come: the 500 ms timer
\* of a root fires, and the scene renders the frames of a running animation.
FairR ==
    /\ \A i \in 1..MaxRoots : WF_vars(TimerR(i))
    /\ \A i \in 1..MaxRoots : WF_vars(AnimateR(i))

SpecRegistryFair == InitR /\ [][NextR]_vars /\ FairR

\* C33: whenever placeObject has made its debug sphere and its container
\* node, a time comes when neither is in the scene any more
C33_HelpersRemoved ==
    (page = "registry" /\ io.debugSpheres + io.containers > 0)
        ~> (io.debugSpheres = 0 /\ io.containers = 0)

\* C33, what the code does: no container node is ever removed, and the debug
\* spheres left are those of the failed placements (one for each fallback
\* box), of the timers still to fire and of the import still waited for
C33_HelpersLeft ==
    page = "registry" =>
        /\ io.containers = Len(io.roots) + Len(io.boxes) + (IF io.placing.active THEN 1 ELSE 0)
        /\ io.debugSpheres = Len(io.boxes) + (IF io.placing.active THEN 1 ELSE 0)
              + Cardinality({i \in 1..Len(io.roots) : io.roots[i].timer})

\* C34: the path a placing click loads is the folder whose file button armed
\* the file, followed by the file name
C34_PathOfArmedFile ==
    [][ (page = "catalog" /\ io'.op = "placeObject") =>
           io'.filePath = FilePath(io.chosenFrom, io.selectedFile) ]_vars

\* C34, what the code does: the folder of the path is the top of folderStack
\* at the click, whichever folder the file was armed from
C34_PathOfTopFolder ==
    [][ (page = "catalog" /\ io'.op = "placeObject") =>
           io'.filePath = FilePath(TopFolder(io.folderStack), io.selectedFile) ]_vars

\* C35: once loadScene has cleared the scene, the selected object is none or
\* a node of the scene
C35_SelectionSurvivesClear ==
    (page = "documents" /\ io.op \in {"load", "settle", "loaded"}) =>
        \/ io.selectedObject = NoUuid
        \/ /\ ~io.stale
           /\ \E k \in 1..Len(io.scene) : io.scene[k].uuid = io.selectedObject

\* C35, what the code does: loadScene leaves selectedObject as it was
C35_LoadKeepsSelection ==
    [][ (page = "documents" /\ io'.op \in {"load", "settle", "loaded"}) =>
           io'.selectedObject = io.selectedObject ]_vars

\* C36: the selected object of the three.js editor is a placed instance, and
\* the object the last handler deleted was not the axes helper
C36_SelectedIsPlaced ==
    page = "editor" =>
        /\ editor.selectedObject # None =>
               editor.objects[editor.selectedObject].isPlacedObject
        /\ editor.hist.deleted # AxesId

\* C36, what the code guarantees: the selected object is a node of the scene
C36_SelectedIsInScene ==
    (page = "editor" /\ editor.selectedObject # None) =>
        editor.selectedObject \in InScene(editor)

(***************************************************************************)
(*   AssetLevelEditor: the properties panel and the timers its rows set    *)
(***************************************************************************)

\* objects placed in one session with the panel
MaxInstances == 3

\* mousedown on the delete button of a row
RowMouseDownD(r) ==
    /\ page = "documents"
    /\ r \in 1..Len(io.propertiesList)
    /\ ~io.propertiesList[r].removing
    /\ IOStep(rowMouseDown(BeginIO(io), r), "mousedown")

\* the timer of a delete button runs; a row that has left the list since is
\* in no list, and its timer does nothing
RowTimerD(r) ==
    /\ page = "documents"
    /\ r \in 1..Len(io.propertiesList)
    /\ io.propertiesList[r].removing
    /\ IOStep(rowDeleted(BeginIO(io), r), "removeTimer")

\* Enter in the value input of a row
EnterD(r) ==
    /\ page = "documents"
    /\ r \in 1..Len(io.propertiesList)
    /\ ~io.addTimer
    /\ IOStep(valueEnter(BeginIO(io), r), "enter")

\* the timer of the Enter key runs
AddTimerD ==
    /\ page = "documents"
    /\ io.addTimer
    /\ Len(io.propertiesList) < MaxRows
    /\ IOStep(addTimerRuns(BeginIO(io)), "addTimer")

\* the user places doors, selects, deselects and deletes them and uses the
\* panel, whose timers run when the page gets to them
NextD ==
    \/ io.generated < MaxInstances /\ PlaceIO(TRUE, door)
    \/ \E i \in 1..MaxPlaced : DeleteIO(i)
    \/ \E i \in 1..MaxPlaced : SelectIO(i)
    \/ DeselectIO
    \/ AddPropertyIO
    \/ \E r \in 1..MaxRows, text \in KeyTexts : KeyChangedIO(r, text)
    \/ \E r \in 1..MaxRows, text \in ValueTexts : ValueChangedIO(r, text)
    \/ \E r \in 1..MaxRows : RowMouseDownD(r)
    \/ \E r \in 1..MaxRows : RowTimerD(r)
    \/ \E r \in 1..MaxRows : EnterD(r)
    \/ AddTimerD

SpecDeferred == InitPanel /\ [][NextD]_vars

\* the rows of a list that stand for a pair, and the objects that were
\* selected when their texts were entered
EnteredBy(rows) ==
    UNION { {rows[i].keyBy, rows[i].valueBy} :
              i \in {j \in 1..Len(rows) : Trim(rows[j].key) # ""} }

\* C37: whenever a step gives an instance another properties mapping, the
\* mapping is the pairs of the rows of the panel, and every text of these rows
\* was entered while that instance was selected
C37_EditsGoToSelectedInstance ==
    [][ page = "documents" =>
          \A k \in 1..Len(io'.scene) :
             LET n == io'.scene[k]
                 was == {j \in 1..Len(io.scene) : io.scene[j].uuid = n.uuid}
             IN (\E j \in was : io.scene[j].properties # n.properties) =>
                   \E rows \in {io.propertiesList, io'.propertiesList} :
                      /\ n.properties = Collect(rows)
                      /\ EnteredBy(rows) \subseteq {n.uuid} ]_vars

\* C37: the door placed first holds hp = 7, the door placed second is
\* selected and holds nothing, and the timer an Enter in the first door's row
\* set has just added its row to the panel of the second
C37_Witness ==
    /\ page = "documents"
    /\ io.op = "addTimer"
    /\ Len(io.scene) = 2
    /\ io.scene[1].properties = {<<"hp", "7">>}
    /\ io.scene[2].properties = {}
    /\ io.selectedObject = io.scene[2].uuid
    /\ Len(io.propertiesList) = 1

(***************************************************************************)
(*                  SceneManager  (src/sceneManager.js)                    *)
(***************************************************************************)

\* meshes made in one session, and promises of loadScene left behind
MaxMeshes == 3
MaxAbandoned == 1

\* documents the user can pick: not JSON, JSON without a models member, and
\* documents of no, one and two models
ManagerFiles ==
    { Garbage,
      [parses |-> TRUE, value |-> [metadata |-> "1.0"]],
      [parses |-> TRUE, value |-> [models |-> <<>>]],
      [parses |-> TRUE, value |-> [models |-> <<[path |-> "door.glb"]>>]],
      [parses |-> TRUE, value |-> [models |-> <<[path |-> "door.glb"],
                                              [path |-> "barrel.glb"]>>]] }

\* the constructor.  promise is the promise the last call of loadScene
\* returned, abandoned counts the promises of earlier calls that were pending
\* when loadScene was called again; picker: the file dialog input.click()
\* opened is showing; stage, file and index say where the onchange handler is
ManagerInit ==
    [ variant      |-> "manager",
      placedModels |-> <<>>,
      disposed     |-> {},
      generated    |-> 0,
      promise      |-> "none",
      abandoned    |-> 0,
      picker       |-> FALSE,
      stage        |-> "idle",
      file         |-> Garbage,
      index        |-> 0,
      alerted      |-> FALSE,
      op           |-> "init" ]

\* trackModel: a model without a mesh or without a path is refused
trackModelM(s, model) ==
    IF model.mesh = 0 \/ model.path = "" THEN s
    ELSE [s EXCEPT !.placedModels = Append(@, model)]

clearSceneM(s) ==
    [s EXCEPT !.disposed = @ \cup {s.placedModels[i].mesh : i \in 1..Len(s.placedModels)},
              !.placedModels = <<>>]

\* loadScene: the promise is made, the input built and clicked
loadSceneM(s) ==
    [s EXCEPT !.abandoned = IF s.promise = "pending" THEN @ + 1 ELSE @,
              !.promise = "pending",
              !.picker = TRUE]

\* input.onchange with no file in e.target.files: return
onchangeNoFile(s) == [s EXCEPT !.picker = FALSE]

\* input.onchange with a file, up to `await file.text()`
onchangeFile(s, file) ==
    [s EXCEPT !.picker = FALSE, !.stage = "reading", !.file = file, !.alerted = FALSE]

\* the outer catch, and the end of the try block
failedM(s) == [s EXCEPT !.alerted = TRUE, !.promise = "resolved", !.stage = "idle"]

finishedM(s) == [s EXCEPT !.promise = "resolved", !.stage = "idle"]

\* the entry the loop is at, or the end of the loop
loopM(s, i) ==
    IF i > Len(s.file.value.models) THEN finishedM(s)
    ELSE [s EXCEPT !.stage = "placing", !.index = i]

\* the text has come: JSON.parse, clearScene, and the loop up to the first
\* `await placeModelCallback(modelData)`; sceneData.models of a document
\* without the member is not iterable
textRead(s) ==
    IF ~s.file.parses THEN failedM(s)
    ELSE LET cleared == clearSceneM(s)
         IN IF ~Has(s.file.value, "models") THEN failedM(cleared)
            ELSE loopM(cleared, 1)

\* the callback's promise settles: it has tracked the model it placed, or it
\* has placed nothing it tracked, or it rejects, which the inner catch logs
callbackSettles(s, outcome) ==
    LET modelData == s.file.value.models[s.index]
        after == IF outcome = "tracked"
                 THEN [trackModelM(s, [mesh |-> s.generated + 1, path |-> modelData.path])
                          EXCEPT !.generated = @ + 1]
                 ELSE s
    IN loopM(after, s.index + 1)

StepM(s, op) ==
    /\ io' = [s EXCEPT !.op = op]
    /\ UNCHANGED <<page, editor, lastE, browser, input, lastB, calc>>

\* the page places a model and tracks it
TrackM(path) ==
    /\ page = "manager"
    /\ io.stage = "idle"
    /\ io.generated < MaxMeshes
    /\ StepM([trackModelM(io, [mesh |-> io.generated + 1, path |-> path])
                 EXCEPT !.generated = @ + 1], "track")

\* the page calls loadScene while no load is running and no dialog showing
LoadSceneM ==
    /\ page = "manager"
    /\ io.stage = "idle" /\ ~io.picker
    /\ io.promise = "pending" => io.abandoned < MaxAbandoned
    /\ StepM(loadSceneM(io), "loadScene")

\* the user picks a file in the dialog
PickM(file) ==
    /\ page = "manager"
    /\ io.picker
    /\ StepM(onchangeFile(io, file), "picked")

\* the change event comes with an empty file list
NoFileM ==
    /\ page = "manager"
    /\ io.picker
    /\ StepM(onchangeNoFile(io), "noFile")

\* the user cancels the dialog: no change event comes
CancelM ==
    /\ page = "manager"
    /\ io.picker
    /\ StepM([io EXCEPT !.picker = FALSE], "cancelled")

TextReadM ==
    /\ page = "manager"
    /\ io.stage = "reading"
    /\ StepM(textRead(io), "read")

CallbackSettlesM(outcome) ==
    /\ page = "manager"
    /\ io.stage = "placing"
    /\ outcome = "tracked" => io.generated < MaxMeshes
    /\ StepM(callbackSettles(io, outcome), "settled")

NextM ==
    \/ \E path \in {"door.glb", "barrel.glb"} : TrackM(path)
    \/ LoadSceneM
    \/ \E file \in ManagerFiles : PickM(file)
    \/ NoFileM
    \/ CancelM
    \/ TextReadM
    \/ \E outcome \in {"tracked", "untracked", "rejected"} : CallbackSettlesM(outcome)

InitM ==
    /\ page = "manager"
    /\ editor = EditorInit
    /\ lastE = NoStepE
    /\ browser = BrowserInit
    /\ input = InputInit
    /\ lastB = NoStepB
    /\ io = ManagerInit
    /\ calc = NoCalc

SpecManager == InitM /\ [][NextM]_vars

\* file.text() settles, and so does every promise the callback returns
FairM ==
    /\ WF_vars(TextReadM)
    /\ \A outcome \in {"tracked", "untracked", "rejected"} :
          WF_vars(CallbackSettlesM(outcome))

SpecManagerFair == InitM /\ [][NextM]_vars /\ FairM

\* C38: once the file dialog of a loadScene call has closed, with a file or
\* without one, the promise the call returned resolves
C38_PromiseResolves ==
    (page = "manager" /\ io.promise = "pending" /\ ~io.picker)
        ~> (io.promise = "resolved")

\* C38, the part that holds: once a file has been picked the promise
\* resolves, whatever the file holds and however the callback ends
C38_PromiseResolvesAfterPick ==
    (page = "manager" /\ io.stage # "idle") ~> (io.promise = "resolved")

\* C38, what the code does without a file: the promise stays pending until
\* loadScene is called again, which leaves it behind
C38_NoFileLeavesPending ==
    [][ (page = "manager" /\ io.op \in {"noFile", "cancelled"} /\ io'.op # "loadScene")
           => (io'.promise = "pending" /\ io'.stage = "idle") ]_vars

\* C39: in the Babylon editor an object is selected whenever isRotating is
\* true
C39_RotatingImpliesSelected ==
    (page = "browser" /\ browser.isRotating) => browser.selectedObject # None

\* C39, what the code guarantees: a pointer move turns an object only while
\* an object is selected and isRotating is true
C39_MoveTurnsSelectedOnly ==
    [][ (page = "browser" /\ lastB'.op = "move") =>
          \A i \in ModelIds :
             browser'.nodes[i].rotY # browser.nodes[i].rotY =>
                (browser.isRotating /\ browser.selectedObject = i) ]_vars

\* C39: a pointer move has just turned the selected object
C39_Turned ==
    page = "browser" /\ lastB.op = "move" /\ browser.isRotating /\ browser.hist.turned # 0

(***************************************************************************)
(*     AssetLevelEditor: the transform gizmo and the positions it moves    *)
(***************************************************************************)

\* where a drag can leave the attached object (hundredths of a unit): off
\* the grid on every axis, and halfway between grid points
DragPoints == { Vector3(130, 20, -49), Vector3(250, -50, -150) }

\* the position of every node, the axes helper at the origin
GizmoInit == [op |-> "gizmo", position |-> [i \in ObjIds |-> Vector3(0, 0, 0)]]

\* variant of the listener that leaves the object where the drag left it
draggingChangedAt_noSnap(e, position, value) == position

\* the 'dragging-changed' listener of the constructor, as far as positions go:
\* when a drag ends the selected object is moved to snapToGrid of its position
draggingChangedAt(e, position, value) ==
    IF ~value /\ e.selectedObject # None
    THEN [position EXCEPT ![e.selectedObject] = Hundredths(snapToGrid(@))]
    ELSE position

\* model.position.copy(position) of placeModel, position being the snapped
\* point of the click
LoadDoneG(k, ok, point) ==
    /\ page = "editor"
    /\ k \in 1..Len(editor.pending)
    /\ FreeIds(editor) # {}
    /\ editor' = placeModelDone(Begin(editor), k, ok, CubeShape)
    /\ calc' = [calc EXCEPT !.position[NextId(editor)] = Hundredths(snapToGrid(point))]
    /\ lastE' = StepE(IF ok THEN "loaded" ELSE "loadFailed")
    /\ UNCHANGED <<page, browser, input, lastB, io>>

\* the pointer moves during a drag: TransformControls moves its object
DragMoveG(point) ==
    /\ page = "editor"
    /\ editor.dragging /\ editor.tcEnabled /\ editor.attached # None
    /\ calc' = [calc EXCEPT !.position[editor.attached] = point]
    /\ lastE' = StepE("dragMove")
    /\ UNCHANGED <<page, editor, browser, input, lastB, io>>

DragEndG ==
    /\ page = "editor"
    /\ editor.dragging /\ editor.tcEnabled
    /\ editor' = draggingChanged(Begin(editor), FALSE)
    /\ calc' = [calc EXCEPT !.position = draggingChangedAt(editor, @, FALSE)]
    /\ lastE' = StepE("dragEnd")
    /\ UNCHANGED <<page, browser, input, lastB, io>>

NextG ==
    \/ \E f \in Files : SelectFileE(f)
    \/ \E button \in {0, 2}, hit \in ObjIds \cup {None} : MouseClickE(button, hit)
    \/ \E key \in Keys : KeyDownE(key)
    \/ \E key \in Keys : KeyUpE(key)
    \/ \E k \in 1..MaxPending, ok \in BOOLEAN, point \in PickPoints : LoadDoneG(k, ok, point)
    \/ DragStartE
    \/ \E point \in DragPoints : DragMoveG(point)
    \/ DragEndG

InitG ==
    /\ page = "editor"
    /\ editor = EditorInit
    /\ lastE = NoStepE
    /\ browser = BrowserInit
    /\ input = InputInit
    /\ lastB = NoStepB
    /\ io = NoIO
    /\ calc = GizmoInit

SpecGizmo == InitG /\ [][NextG]_vars

OnGrid(position) ==
    position.x % 100 = 0 /\ position.y % 100 = 0 /\ position.z % 100 = 0

\* C40: in the three.js editor the orbit controls are disabled exactly while
\* a gizmo drag is in progress, a mouse click during a drag changes neither
\* the selected object nor the armed file, and when a drag ends with an
\* object selected the position of that object is on the grid on all axes
C40_DragSafety ==
    [][ /\ editor'.controlsEnabled = ~editor'.dragging
        /\ (lastE'.op \in {"leftClick", "rightClick"} /\ editor.dragging) =>
              /\ editor'.selectedObject = editor.selectedObject
              /\ editor'.selectedFile = editor.selectedFile
        /\ (lastE'.op = "dragEnd" /\ editor'.selectedObject # None) =>
              OnGrid(calc'.position[editor'.selectedObject]) ]_vars

\* C40: a drag that left the placed object at (1.3, 0.2, -0.49) has ended,
\* and the object, still selected, is at (1, 0, 0)
C40_Witness ==
    /\ page = "editor"
    /\ lastE.op = "dragEnd"
    /\ editor.selectedObject = 1
    /\ ~editor.dragging /\ editor.controlsEnabled
    /\ calc.position[1] = Vector3(100, 0, 0)

\* C40: a click has come during a drag
C40_ClickWhileDragging ==
    page = "editor" /\ lastE.op = "leftClick" /\ editor.dragging /\ ~editor.controlsEnabled


====
